---- MODULE Spec2Model ----
(***************************************************************************)
(* Model of the expense categorizer of AIFinance                           *)
(* (app/ml_models/categorizer.py): the process-wide ExpenseCategorizer     *)
(* instance, its in-memory pipeline reference, the pickled artifact on     *)
(* disk, and the request threads that call its methods.                    *)
(*                                                                         *)
(* Descriptions are sequences of lower-case tokens (the tokenizer and      *)
(* lowercase=True of the vectorizer have already been applied).  The       *)
(* tf-idf weight of a feature is abstracted to its term count.             *)
(***************************************************************************)
EXTENDS Integers, Sequences, FiniteSets, TLC

\* ------------------------------------------------------------- bounds
NumThreads == 2
MaxBatch == 2

\* the most rows the transactions table holds
MaxTxns == 1

\* ------------------------------------------------- program constants
\* TfidfVectorizer(max_features=1000)
MaxFeatures == 1000
\* MultinomialNB(alpha=0.1), in tenths
AlphaTenths == 1
\* train_test_split(test_size=0.2): one example in TestSizeInv is held out
TestSizeInv == 5

Threads == 1..NumThreads

\* Python's None
None == [kind |-> "None"]

\* ------------------------------------------------------------ the data
\* app/ml_models/training_data.py: the label taxonomy
CATEGORIES ==
    <<"Food", "Transport", "Entertainment", "Shopping", "Bills",
      "Healthcare", "Education", "Personal Care", "Other", "Income">>

\* app/ml_models/training_data.py: the bundled corpus (a reduced seed set)
TRAINING_DATA ==
    << << <<"coffee">>, "Food" >>,
       << <<"starbucks", "coffee">>, "Food" >>,
       << <<"the", "bus">>, "Transport" >>,
       << <<"netflix">>, "Entertainment" >>,
       << <<"bus", "ticket">>, "Transport" >> >>

\* caller-supplied corpora a caller of train() can pass
Corpus ==
    [ custom   |-> << << <<"the", "vet">>, "Pets" >>,
                      << <<"coffee">>, "Pets" >>,
                      << <<"bus">>, "Transport" >> >>,
      stoponly |-> << << <<"the">>, "Food" >>,
                      << <<"the">>, "Other" >> >>,
      empty    |-> << >> ]

\* the values of train's training_data parameter; "None" is the default
TrainArgs == {"None", "custom", "stoponly", "empty"}

\* descriptions a caller can pass to predict
Descriptions == { <<"coffee">>, <<"the">> }

\* non-empty batches a caller can pass to predict_batch
Batches == UNION { [1..n -> Descriptions] : n \in 1..MaxBatch }

\* the arguments request threads running side by side pass: the default
\* corpus or one with no usable word, and batches of one description
ConcTrainArgs == {"None", "stoponly"}

ConcBatches == { xs \in Batches : Len(xs) = 1 }

\* stop_words='english' restricted to the tokens in use
StopWords == {"the", "a", "at"}

\* sorted order of the labels in use (numpy.unique sorts classes_)
SortedLabels == <<"Entertainment", "Food", "Other", "Pets", "Transport">>

\* ------------------------------------------------ sequence arithmetic
RECURSIVE SumSeq(_)
SumSeq(s) == IF s = <<>> THEN 0 ELSE Head(s) + SumSeq(Tail(s))

\* the members of a sequence
Members(s) == { s[i] : i \in DOMAIN s }

RECURSIVE ProdSeq(_)
ProdSeq(s) == IF s = <<>> THEN 1 ELSE Head(s) * ProdSeq(Tail(s))

RECURSIVE Power(_, _)
Power(b, k) == IF k = 0 THEN 1 ELSE b * Power(b, k - 1)

\* sum and product of the values of a function with a finite domain
RECURSIVE SumFn(_)
SumFn(f) ==
    IF DOMAIN f = {} THEN 0
    ELSE LET x == CHOOSE x \in DOMAIN f : TRUE
         IN  f[x] + SumFn([y \in DOMAIN f \ {x} |-> f[y]])

RECURSIVE ProdFn(_)
ProdFn(f) ==
    IF DOMAIN f = {} THEN 1
    ELSE LET x == CHOOSE x \in DOMAIN f : TRUE
         IN  f[x] * ProdFn([y \in DOMAIN f \ {x} |-> f[y]])

\* ----------------------------------------------------- the vectorizer
\* TfidfVectorizer analyzer: stop words removed, then unigrams and bigrams;
\* every feature is a sequence of one or two tokens
FeatureSeq(doc) ==
    LET kept == SelectSeq(doc, LAMBDA w : w \notin StopWords)
        uni  == [i \in 1..Len(kept) |-> <<kept[i]>>]
        bi   == [i \in 1..(IF Len(kept) = 0 THEN 0 ELSE Len(kept) - 1) |-> <<kept[i], kept[i + 1]>>]
    IN  uni \o bi

\* term count of feature f in doc
Count(f, doc) == Len(SelectSeq(FeatureSeq(doc), LAMBDA x : x = f))

\* corpus-wide frequency of feature f
TermFreq(f, X) == SumSeq([i \in 1..Len(X) |-> Count(f, X[i])])

\* the vocabulary fit on documents X, capped at max_features by frequency
Vocabulary(X) ==
    LET all == UNION { { FeatureSeq(X[i])[j] : j \in 1..Len(FeatureSeq(X[i])) } : i \in 1..Len(X) }
    IN  IF Cardinality(all) <= MaxFeatures
        THEN all
        ELSE CHOOSE V \in SUBSET all :
                /\ Cardinality(V) = MaxFeatures
                /\ \A f \in V, h \in all \ V : TermFreq(f, X) >= TermFreq(h, X)

\* -------------------------------------------------------- train/test split
\* train_test_split(test_size=0.2, random_state=42): n_test = ceil(n / 5).
\* The seeded shuffle is a fixed permutation; it is taken to put the first
\* n_test examples in the held-out partition.
NTest(n) == (n + TestSizeInv - 1) \div TestSizeInv

NTrain(n) == n - NTest(n)

TrainPart(data) == SubSeq(data, NTest(Len(data)) + 1, Len(data))

TestPart(data) == SubSeq(data, 1, NTest(Len(data)))

Docs(part) == [i \in 1..Len(part) |-> part[i][1]]

Labels(part) == [i \in 1..Len(part) |-> part[i][2]]

\* the corpus train() works on: TRAINING_DATA when training_data is None
DataOf(td) == IF td = "None" THEN TRAINING_DATA ELSE Corpus[td]

\* ----------------------------------------------------- the pipeline object
\* Pipeline([('tfidf', TfidfVectorizer(...)), ('clf', MultinomialNB(...))]),
\* not yet fitted
UnfittedVec == [fitted |-> FALSE, vocabulary |-> {}]

UnfittedClf == [fitted |-> FALSE]

NewPipeline == [kind |-> "Pipeline", vec |-> UnfittedVec, clf |-> UnfittedClf]

\* TfidfVectorizer.fit_transform: the fitted vectorizer
FitVec(X) == [fitted |-> TRUE, vocabulary |-> Vocabulary(X)]

\* MultinomialNB.fit on the documents X (vectorized over vocab) and labels y
FitClf(X, y, vocab) ==
    LET classes == { y[i] : i \in 1..Len(y) }
    IN  [ fitted        |-> TRUE,
          n_features    |-> Cardinality(vocab),
          classes       |-> classes,
          class_count   |-> [c \in classes |-> Cardinality({ i \in 1..Len(y) : y[i] = c })],
          feature_count |-> [c \in classes |-> [f \in vocab |->
                               SumSeq([i \in 1..Len(X) |-> IF y[i] = c THEN Count(f, X[i]) ELSE 0])]] ]

IsFitted(p) == p # None /\ p.vec.fitted /\ p.clf.fitted

\* a fitted pipeline whose classifier was fitted over as many features as
\* its vectorizer produces
IsUsable(p) == IsFitted(p) /\ p.clf.n_features = Cardinality(p.vec.vocabulary)

\* ------------------------------------------------------------- inference
\* joint weight of class c for the features feats, over the common
\* denominator of the smoothed likelihoods (feature_count + alpha) /
\* (class total + alpha * n_features), alpha = AlphaTenths / 10
ClassTotal(clf, c) == SumFn(clf.feature_count[c])

Denominator(clf, c) == 10 * ClassTotal(clf, c) + AlphaTenths * clf.n_features

Joint(clf, c, feats) ==
    clf.class_count[c]
      * ProdSeq([i \in 1..Len(feats) |-> 10 * clf.feature_count[c][feats[i]] + AlphaTenths])
      * ProdFn([c2 \in clf.classes \ {c} |-> Power(Denominator(clf, c2), Len(feats))])

\* Pipeline.predict / Pipeline.predict_proba on one document: the exception
\* raised, or the most probable class (the first of the sorted classes_ on a
\* tie) and its posterior probability num / den
Infer(p, doc) ==
    IF p = None THEN [exc |-> "AttributeError"]
    ELSE IF ~IsFitted(p) THEN [exc |-> "NotFittedError"]
    ELSE IF p.clf.n_features # Cardinality(p.vec.vocabulary) THEN [exc |-> "ValueError"]
    ELSE
      LET feats == SelectSeq(FeatureSeq(doc), LAMBDA f : f \in p.vec.vocabulary)
          J(c)  == Joint(p.clf, c, feats)
          best  == CHOOSE i \in 1..Len(SortedLabels) :
                      /\ SortedLabels[i] \in p.clf.classes
                      /\ \A c \in p.clf.classes : J(c) <= J(SortedLabels[i])
                      /\ \A j \in 1..(i - 1) :
                            SortedLabels[j] \in p.clf.classes => J(SortedLabels[j]) < J(SortedLabels[i])
      IN  [ exc |-> "",
            cat |-> SortedLabels[best],
            num |-> J(SortedLabels[best]),
            den |-> SumFn([c \in p.clf.classes |-> J(c)]) ]

\* --------------------------------------------------------- the artifact
\* the file at model_path: absent, or its bytes (empty while being written)
NoFile == [exists |-> FALSE, bytes |-> <<>>]

\* a dump that writes the vectorizer's state and not the classifier's
Dumps_VectorizerOnly(p) == <<"sklearn.pipeline.Pipeline", p.vec, UnfittedClf>>

\* pickle.dump(self.pipeline, f): the class tag, then the state of each step
Dumps(p) == <<"sklearn.pipeline.Pipeline", p.vec, p.clf>>

\* pickle.load(f): fails on a file that ends before the object is complete
CanLoad(bytes) == Len(bytes) = 3

Loads(bytes) == [kind |-> "Pipeline", vec |-> bytes[2], clf |-> bytes[3]]

\* ------------------------------------------------------------ the state
\* no request served yet by this process
NoRequest ==
    [ep |-> "none", args |-> << >>, status |-> 0, detail |-> "", body |-> << >>, passed |-> << >>]

\* the client addresses requests come from
ClientIps == {"10.0.0.1", "10.0.0.2"}

\* rate_limit.py line 34: defaultdict(deque), every client's deque empty
NoClients == [c \in ClientIps |-> << >>]

\* no forecaster call made yet
NoCall == [op |-> "none"]

\* pipeline: categorizer.pipeline, the in-memory model reference
\* disk:     the file at categorizer.model_path
\* th:       each request thread's call in progress
\* boot:     whether the server process has finished starting up
\* req:      the last HTTP request served and its response
\* txns:     the rows of the transactions table
\* balance:  accounts.balance of the account in use
\* fc:       the last call of the forecaster and its result
\* clients:  RateLimitMiddleware.clients, each client's admitted request times
\* clock:    time.time(), in whole seconds
\* budgets:  the rows of the budgets table
VARIABLES pipeline, disk, th, boot, req, txns, balance, fc, clients, clock, budgets

vars == <<pipeline, disk, th, boot, req, txns, balance, fc, clients, clock, budgets>>

\* what no method of the categorizer reads or writes
outside == <<boot, req, txns, balance, fc, clients, clock, budgets>>

\* A thread's frame.  pc is the stack of code positions still to run (the
\* position being executed first, then those the returns go back to);
\* target tells whether the pipeline object the thread's fit() call runs on
\* is still the one categorizer.pipeline refers to.
Idle ==
    [ op |-> "idle", status |-> "idle", pc |-> <<>>, td |-> "None", xs |-> <<>>,
      target |-> "none", cats |-> <<>>, ret |-> <<>>, exc |-> "" ]

Start(op, entry, td, xs) ==
    [Idle EXCEPT !.op = op, !.status = "running", !.pc = <<entry>>, !.td = td, !.xs = xs]

\* return v from the function at the top of the stack
Return(l, v) ==
    [l EXCEPT !.pc = Tail(l.pc), !.ret = v, !.target = "none",
              !.status = IF Len(l.pc) = 1 THEN "returned" ELSE "running"]

\* raise e: no method of the categorizer catches, so the call ends
Raise(l, e) == [l EXCEPT !.pc = <<>>, !.status = "raised", !.exc = e, !.target = "none", !.cats = <<>>]

\* continue at the positions labs instead of the current one
Goto(l, labs) == [l EXCEPT !.pc = labs \o Tail(l.pc)]

\* the outcome of one step: the shared state, the frame, and whether the
\* step bound categorizer.pipeline to another object
Out(p, d, l, assigned) == [pipeline |-> p, disk |-> d, l |-> l, assigned |-> assigned]

\* ---------------------------------------------------------------- train
\* a train that binds the new pipeline before splitting the data
Train_40_BindFirst(p, d, l) ==
    LET data == DataOf(l.td)
    IN  IF NTrain(Len(data)) = 0
        THEN Out(NewPipeline, d, Raise(l, "ValueError"), TRUE)
        ELSE Out(NewPipeline, d, Goto(l, <<"train_64">>), TRUE)

\* lines 40-61: default corpus, train_test_split (which raises ValueError when
\* the training partition would be empty), then self.pipeline = Pipeline(...)
Train_40(p, d, l) ==
    LET data == DataOf(l.td)
    IN  IF NTrain(Len(data)) = 0
        THEN Out(p, d, Raise(l, "ValueError"), FALSE)
        ELSE Out(NewPipeline, d, Goto(l, <<"train_64">>), TRUE)

\* line 64: self.pipeline is read and fit() is entered on that object
Train_64(p, d, l) ==
    Out(p, d, [Goto(l, <<"train_64_tfidf">>) EXCEPT !.target = "current"], FALSE)

\* line 64, Pipeline.fit, first step: the vectorizer is fitted in place;
\* an empty vocabulary raises ValueError
Train_64_tfidf(p, d, l) ==
    LET X == Docs(TrainPart(DataOf(l.td)))
    IN  IF Vocabulary(X) = {}
        THEN Out(p, d, Raise(l, "ValueError"), FALSE)
        ELSE Out(IF l.target = "current" THEN [p EXCEPT !.vec = FitVec(X)] ELSE p,
                 d, Goto(l, <<"train_64_clf">>), FALSE)

\* line 64, Pipeline.fit, last step: the classifier is fitted in place
Train_64_clf(p, d, l) ==
    LET part == TrainPart(DataOf(l.td))
        X    == Docs(part)
    IN  Out(IF l.target = "current"
              THEN [p EXCEPT !.clf = FitClf(X, Labels(part), Vocabulary(X))]
              ELSE p,
            d, [Goto(l, <<"train_67">>) EXCEPT !.target = "none"], FALSE)

\* a train that also writes the fitted pipeline to the file
Train_67_Persisting(p, d, l) ==
    IF Infer(p, <<>>).exc # ""
    THEN Out(p, d, Raise(l, Infer(p, <<>>).exc), FALSE)
    ELSE Out(p, [exists |-> TRUE, bytes |-> <<"sklearn.pipeline.Pipeline", p.vec, p.clf>>],
             Return(l, <<0, 0>>), FALSE)

\* lines 67-74: self.pipeline.predict(X_test) and the accuracy, returned as
\* <<correct, n_test>>
Train_67(p, d, l) ==
    LET part == TestPart(DataOf(l.td))
        hit  == { i \in 1..Len(part) : Infer(p, part[i][1]).cat = part[i][2] }
    IN  IF Infer(p, <<>>).exc # ""
        THEN Out(p, d, Raise(l, Infer(p, <<>>).exc), FALSE)
        ELSE Out(p, d, Return(l, <<Cardinality(hit), Len(part)>>), FALSE)

\* ----------------------------------------------------------- load_model
\* lines 139-146
Load_139(p, d, l) ==
    IF ~d.exists THEN Out(p, d, Return(l, <<FALSE>>), FALSE)
    ELSE IF ~CanLoad(d.bytes) THEN Out(p, d, Raise(l, "EOFError"), FALSE)
    ELSE Out(Loads(d.bytes), d, Return(l, <<TRUE>>), TRUE)

\* ----------------------------------------------------------- save_model
\* a save_model that opens the file before it checks for a model
Save_125_OpenFirst(p, d, l) ==
    IF p = None
    THEN Out(p, [exists |-> TRUE, bytes |-> <<>>], Raise(l, "ValueError"), FALSE)
    ELSE Out(p, [exists |-> TRUE, bytes |-> <<>>], Goto(l, <<"save_133">>), FALSE)

\* lines 125-132: the None check, makedirs, and open(model_path, 'wb'),
\* which creates or truncates the file
Save_125(p, d, l) ==
    IF p = None
    THEN Out(p, d, Raise(l, "ValueError"), FALSE)
    ELSE Out(p, [exists |-> TRUE, bytes |-> <<>>], Goto(l, <<"save_133">>), FALSE)

\* lines 133-135: pickle.dump(self.pipeline, f)
Save_133(p, d, l) ==
    Out(p, [exists |-> TRUE, bytes |-> Dumps(p)], Return(l, <<>>), FALSE)

\* -------------------------------------------------------------- predict
\* line 86: with no model, call load_model and come back at line 89
Predict_86(p, d, l) ==
    IF p = None
    THEN Out(p, d, Goto(l, <<"load_139", "predict_89">>), FALSE)
    ELSE Out(p, d, Goto(l, <<"predict_89">>), FALSE)

\* a predict that trains on a cold start but does not save
Predict_89_NoSave(p, d, l) ==
    IF p = None
    THEN Out(p, d, [Goto(l, <<"train_40", "predict_96">>) EXCEPT !.td = "None"], FALSE)
    ELSE Out(p, d, Goto(l, <<"predict_96">>), FALSE)

\* lines 89-93: with still no model, train(), save_model(), then line 96
Predict_89(p, d, l) ==
    IF p = None
    THEN Out(p, d, [Goto(l, <<"train_40", "save_125", "predict_96">>) EXCEPT !.td = "None"], FALSE)
    ELSE Out(p, d, Goto(l, <<"predict_96">>), FALSE)

\* line 96: self.pipeline.predict([description])[0]
Predict_96(p, d, l) ==
    LET o == Infer(p, l.xs[1])
    IN  IF o.exc # ""
        THEN Out(p, d, Raise(l, o.exc), FALSE)
        ELSE Out(p, d, [Goto(l, <<"predict_99">>) EXCEPT !.cats = <<o.cat>>], FALSE)

\* lines 99-102: self.pipeline.predict_proba([description])[0], its maximum,
\* and the result (prediction, confidence) as <<category, num, den>>
Predict_99(p, d, l) ==
    LET o == Infer(p, l.xs[1])
    IN  IF o.exc # ""
        THEN Out(p, d, Raise(l, o.exc), FALSE)
        ELSE Out(p, d, [Return(l, <<l.cats[1], o.num, o.den>>) EXCEPT !.cats = <<>>], FALSE)

\* -------------------------------------------------------- predict_batch
\* line 114: with no model, call load_model and come back at line 117
Batch_114(p, d, l) ==
    IF p = None
    THEN Out(p, d, Goto(l, <<"load_139", "batch_117">>), FALSE)
    ELSE Out(p, d, Goto(l, <<"batch_117">>), FALSE)

\* line 117: self.pipeline.predict(descriptions)
Batch_117(p, d, l) ==
    IF Infer(p, <<>>).exc # ""
    THEN Out(p, d, Raise(l, Infer(p, <<>>).exc), FALSE)
    ELSE Out(p, d, [Goto(l, <<"batch_118">>) EXCEPT
                      !.cats = [i \in 1..Len(l.xs) |-> Infer(p, l.xs[i]).cat]], FALSE)

\* lines 118-121: predict_proba, the maxima, and the zipped result
Batch_118(p, d, l) ==
    IF Infer(p, <<>>).exc # ""
    THEN Out(p, d, Raise(l, Infer(p, <<>>).exc), FALSE)
    ELSE Out(p, d,
             [Return(l, [i \in 1..Len(l.xs) |->
                           <<l.cats[i], Infer(p, l.xs[i]).num, Infer(p, l.xs[i]).den>>])
                EXCEPT !.cats = <<>>],
             FALSE)

\* ----------------------------------------------------- initialize_model
\* line 160: call categorizer.load_model()
Init_160(p, d, l) == Out(p, d, Goto(l, <<"load_139", "init_161">>), FALSE)

\* lines 160-163: if it returned False, train() and save_model()
Init_161(p, d, l) ==
    IF l.ret = <<TRUE>>
    THEN Out(p, d, Return(l, <<>>), FALSE)
    ELSE Out(p, d, [Goto(l, <<"train_40", "save_125">>) EXCEPT !.td = "None"], FALSE)

\* ------------------------------------------------------- get_categories
\* lines 148-150: the taxonomy, whatever the model holds
get_categories == CATEGORIES

\* ------------------------------------------------------ one thread step
\* the step of the code position at the top of frame l's stack
Step(p, d, l) ==
    CASE Head(l.pc) = "train_40"       -> Train_40(p, d, l)
      [] Head(l.pc) = "train_64"       -> Train_64(p, d, l)
      [] Head(l.pc) = "train_64_tfidf" -> Train_64_tfidf(p, d, l)
      [] Head(l.pc) = "train_64_clf"   -> Train_64_clf(p, d, l)
      [] Head(l.pc) = "train_67"       -> Train_67(p, d, l)
      [] Head(l.pc) = "load_139"       -> Load_139(p, d, l)
      [] Head(l.pc) = "save_125"       -> Save_125(p, d, l)
      [] Head(l.pc) = "save_133"       -> Save_133(p, d, l)
      [] Head(l.pc) = "predict_86"     -> Predict_86(p, d, l)
      [] Head(l.pc) = "predict_89"     -> Predict_89(p, d, l)
      [] Head(l.pc) = "predict_96"     -> Predict_96(p, d, l)
      [] Head(l.pc) = "predict_99"     -> Predict_99(p, d, l)
      [] Head(l.pc) = "batch_114"      -> Batch_114(p, d, l)
      [] Head(l.pc) = "batch_117"      -> Batch_117(p, d, l)
      [] Head(l.pc) = "batch_118"      -> Batch_118(p, d, l)
      [] Head(l.pc) = "init_160"       -> Init_160(p, d, l)
      [] Head(l.pc) = "init_161"       -> Init_161(p, d, l)

\* a call run from start to end with no other thread stepping
RECURSIVE Run(_, _, _)
Run(p, d, l) ==
    IF l.pc = <<>> THEN Out(p, d, l, FALSE)
    ELSE CHOOSE r \in { Run(o.pipeline, o.disk, o.l) : o \in {Step(p, d, l)} } : TRUE

\* --------------------------------------------------- the concurrent system
\* line 154, categorizer = ExpenseCategorizer(): lines 24-30 leave no model
\* in memory; a fresh deployment has no artifact
InitCategorizer ==
    /\ pipeline = None
    /\ disk = NoFile
    /\ th = [t \in Threads |-> Idle]

\* no server process yet, an empty database, no forecast asked for
Init ==
    /\ InitCategorizer
    /\ boot = FALSE
    /\ req = NoRequest
    /\ txns = << >>
    /\ balance = 0
    /\ fc = NoCall
    /\ clients = NoClients
    /\ clock = 0
    /\ budgets = << >>

\* thread t, which has no call in progress, enters a method
Enter(t, l) ==
    /\ th[t].status # "running"
    /\ th' = [th EXCEPT ![t] = l]
    /\ UNCHANGED <<pipeline, disk>>
    /\ UNCHANGED outside

CallPredict(t, desc) == Enter(t, Start("predict", "predict_86", "None", <<desc>>))

CallPredictBatch(t, xs) == Enter(t, Start("predict_batch", "batch_114", "None", xs))

CallTrain(t, td) == Enter(t, Start("train", "train_40", td, <<>>))

CallSaveModel(t) == Enter(t, Start("save_model", "save_125", "None", <<>>))

CallLoadModel(t) == Enter(t, Start("load_model", "load_139", "None", <<>>))

CallInitializeModel(t) == Enter(t, Start("initialize_model", "init_160", "None", <<>>))

\* thread t runs the code position at the top of its stack; when the step
\* rebinds categorizer.pipeline, the object any other thread is fitting is
\* no longer the one the categorizer refers to
Advance(t) ==
    LET o == Step(pipeline, disk, th[t])
    IN  /\ pipeline' = o.pipeline
        /\ disk' = o.disk
        /\ th' = [u \in Threads |->
                    IF u = t THEN o.l
                    ELSE IF o.assigned /\ th[u].target = "current"
                         THEN [th[u] EXCEPT !.target = "stale"]
                         ELSE th[u]]
        /\ UNCHANGED outside

\* the method whose code thread t is in
Running(t, labels) == th[t].status = "running" /\ Head(th[t].pc) \in labels

TrainStep(t) ==
    /\ Running(t, {"train_40", "train_64", "train_64_tfidf", "train_64_clf", "train_67"})
    /\ Advance(t)

LoadModelStep(t) == Running(t, {"load_139"}) /\ Advance(t)

SaveModelStep(t) == Running(t, {"save_125", "save_133"}) /\ Advance(t)

PredictStep(t) ==
    /\ Running(t, {"predict_86", "predict_89", "predict_96", "predict_99"})
    /\ Advance(t)

PredictBatchStep(t) == Running(t, {"batch_114", "batch_117", "batch_118"}) /\ Advance(t)

InitializeStep(t) == Running(t, {"init_160", "init_161"}) /\ Advance(t)

\* the process ends (at any point of any call) and a new one imports the
\* module: a new categorizer with no model; the file stays as it was
Restart ==
    /\ pipeline' = None
    /\ th' = [t \in Threads |-> Idle]
    /\ UNCHANGED disk
    /\ UNCHANGED outside

Next ==
    \/ \E t \in Threads, desc \in Descriptions : CallPredict(t, desc)
    \/ \E t \in Threads, xs \in ConcBatches : CallPredictBatch(t, xs)
    \/ \E t \in Threads, td \in ConcTrainArgs : CallTrain(t, td)
    \/ \E t \in Threads : CallSaveModel(t)
    \/ \E t \in Threads : CallLoadModel(t)
    \/ \E t \in Threads : CallInitializeModel(t)
    \/ \E t \in Threads : TrainStep(t)
    \/ \E t \in Threads : LoadModelStep(t)
    \/ \E t \in Threads : SaveModelStep(t)
    \/ \E t \in Threads : PredictStep(t)
    \/ \E t \in Threads : PredictBatchStep(t)
    \/ \E t \in Threads : InitializeStep(t)
    \/ Restart

Spec == Init /\ [][Next]_vars

\* ----------------------------------------------- one caller at a time
\* a whole call by the only caller, run to its end
Whole(l) ==
    \E o \in {Run(pipeline, disk, l)} :
        /\ pipeline' = o.pipeline
        /\ disk' = o.disk
        /\ th' = [th EXCEPT ![1] = o.l]
        /\ UNCHANGED outside

SeqPredict(desc) == Whole(Start("predict", "predict_86", "None", <<desc>>))

SeqPredictBatch(xs) == Whole(Start("predict_batch", "batch_114", "None", xs))

SeqTrain(td) == Whole(Start("train", "train_40", td, <<>>))

SeqSaveModel == Whole(Start("save_model", "save_125", "None", <<>>))

SeqLoadModel == Whole(Start("load_model", "load_139", "None", <<>>))

SeqInitializeModel == Whole(Start("initialize_model", "init_160", "None", <<>>))

SeqRestart == Restart

SeqNext ==
    \/ \E desc \in Descriptions : SeqPredict(desc)
    \/ \E xs \in Batches : SeqPredictBatch(xs)
    \/ \E td \in TrainArgs : SeqTrain(td)
    \/ SeqSaveModel
    \/ SeqLoadModel
    \/ SeqInitializeModel
    \/ SeqRestart

SeqSpec == Init /\ [][SeqNext]_vars

\* ================================================= the HTTP layer (ml.py)
\* the most descriptions /categorize-batch accepts
MaxDescriptions == 100

\* a description as a client sends it: words and blanks in order; the
\* categorizer's tokenizer sees the words only
RawDescriptions ==
    { << >>, <<" ">>, <<"coffee">>, <<" ", "coffee">>, <<"the">>, <<"bus">>, <<"netflix">> }

\* str.strip(): the string without its leading and trailing blanks
RECURSIVE LStrip(_)
LStrip(s) == IF s # << >> /\ Head(s) = " " THEN LStrip(Tail(s)) ELSE s

RECURSIVE RStrip(_)
RStrip(s) == IF s # << >> /\ s[Len(s)] = " " THEN RStrip(SubSeq(s, 1, Len(s) - 1)) ELSE s

Strip(s) == RStrip(LStrip(s))

\* token_pattern of the vectorizer: the words of the string
Tokens(s) == SelectSeq(s, LAMBDA w : w # " ")

\* round(x, ndigits) of x = num / den >= 0 as an integer count of
\* 1/scale units, ties to the even neighbour
RoundTo(num, den, scale) ==
    LET q == (num * scale) \div den
        r == (num * scale) % den
    IN  IF 2 * r > den \/ (2 * r = den /\ q % 2 = 1) THEN q + 1 ELSE q

\* request bodies of /categorize-batch: no description, a few, and one
\* more than the endpoint accepts
BatchBodies ==
    {<< >>} \cup UNION { [1..n -> RawDescriptions] : n \in 1..MaxBatch }
            \cup { [i \in 1..(MaxDescriptions + 1) |-> <<"coffee">>] }

\* a request served: its endpoint and arguments, the response's status code,
\* error detail and JSON body (a sequence of entries), and the descriptions
\* the handler handed to the categorizer
Response(ep, args, status, detail, body, passed) ==
    [ep |-> ep, args |-> args, status |-> status, detail |-> detail, body |-> body, passed |-> passed]

\* a method of the global categorizer called by the server and run to its end
CallOf(op, entry, xs) == Run(pipeline, disk, Start(op, entry, "None", xs))

\* a call run until it reaches code position lab (or ends before it)
RECURSIVE RunUntil(_, _, _, _)
RunUntil(p, d, l, lab) ==
    IF l.pc = << >> \/ Head(l.pc) = lab THEN Out(p, d, l, FALSE)
    ELSE CHOOSE r \in { RunUntil(o.pipeline, o.disk, o.l, lab) : o \in {Step(p, d, l)} } : TRUE

\* categorizer.py lines 166-172 and main.py lines 87-95: the import of the
\* module runs initialize_model(), then the lifespan hook runs it again;
\* each inside a try that swallows the exception
Startup ==
    /\ ~boot
    /\ \E first \in {Run(None, disk, Start("initialize_model", "init_160", "None", << >>))} :
       \E second \in {Run(first.pipeline, first.disk,
                           Start("initialize_model", "init_160", "None", << >>))} :
        /\ boot' = TRUE
        /\ pipeline' = second.pipeline
        /\ disk' = second.disk
        /\ req' = NoRequest
        /\ UNCHANGED <<th, txns, balance, fc, clients, clock, budgets>>

\* the process is killed during startup after save_model has opened the
\* artifact for writing and before pickle.dump has written it
StartupKilled ==
    /\ ~boot
    /\ \E o \in {RunUntil(None, disk, Start("initialize_model", "init_160", "None", << >>),
                           "save_133")} :
        /\ o.l.pc # << >>
        /\ disk' = o.disk
        /\ UNCHANGED <<pipeline, th, boot, req, txns, balance, fc, clients, clock, budgets>>

\* the server process ends; the artifact and the database stay
Shutdown ==
    /\ boot
    /\ boot' = FALSE
    /\ pipeline' = None
    /\ req' = NoRequest
    /\ UNCHANGED <<disk, th, txns, balance, fc, clients, clock, budgets>>

\* ml.py lines 19-62, POST /categorize
categorize_expense(description) ==
    /\ boot
    /\ IF description = << >> \/ Len(Strip(description)) = 0
       THEN /\ req' = Response("categorize", <<description>>, 400,
                                "Description cannot be empty", << >>, << >>)
            /\ UNCHANGED <<pipeline, disk>>
       ELSE \E o \in {CallOf("predict", "predict_86", <<Tokens(description)>>)} :
                /\ pipeline' = o.pipeline
                /\ disk' = o.disk
                /\ req' = IF o.l.status = "raised"
                          THEN Response("categorize", <<description>>, 500,
                                        "Error categorizing expense", << >>, <<description>>)
                          ELSE Response("categorize", <<description>>, 200, "",
                                 << [ category    |-> o.l.ret[1],
                                      confidence  |-> RoundTo(o.l.ret[2], o.l.ret[3], 1000),
                                      description |-> description ] >>,
                                 <<description>>)
    /\ UNCHANGED <<th, boot, txns, balance, fc, clients, clock, budgets>>

\* ml.py lines 65-108, POST /categorize-batch
categorize_batch(descriptions) ==
    /\ boot
    /\ IF Len(descriptions) = 0
       THEN /\ req' = Response("categorize_batch", descriptions, 400,
                                "Descriptions list cannot be empty", << >>, << >>)
            /\ UNCHANGED <<pipeline, disk>>
       ELSE IF Len(descriptions) > MaxDescriptions
       THEN /\ req' = Response("categorize_batch", descriptions, 400,
                                "Maximum 100 descriptions allowed per request", << >>, << >>)
            /\ UNCHANGED <<pipeline, disk>>
       ELSE \E o \in {CallOf("predict_batch", "batch_114",
                              [i \in 1..Len(descriptions) |-> Tokens(descriptions[i])])} :
                /\ pipeline' = o.pipeline
                /\ disk' = o.disk
                /\ req' = IF o.l.status = "raised"
                          THEN Response("categorize_batch", descriptions, 500,
                                        "Error in batch categorization", << >>, descriptions)
                          ELSE Response("categorize_batch", descriptions, 200, "",
                                 [ i \in 1..Len(descriptions) |->
                                     [ description |-> descriptions[i],
                                       category    |-> o.l.ret[i][1],
                                       confidence  |-> RoundTo(o.l.ret[i][2], o.l.ret[i][3], 1000) ] ],
                                 descriptions)
    /\ UNCHANGED <<th, boot, txns, balance, fc, clients, clock, budgets>>

ApiNext ==
    \/ Startup
    \/ StartupKilled
    \/ Shutdown
    \/ \E description \in RawDescriptions : categorize_expense(description)
    \/ \E descriptions \in BatchBodies : categorize_batch(descriptions)

ApiSpec == Init /\ [][ApiNext]_vars

\* ================================== the transactions API (transactions.py)
\* the users, and the one account, which user 1 owns
Users == {1, 2}

AccountId == 1

AccountOwner == 1

\* an Optional[...] value: << >> for None, <<v>> for the value v
Some(v) == <<v>>

\* Python's truth value of an Optional[str] field: None and "" are false
Truthy(opt, empty) == opt # << >> /\ opt[1] # empty

\* a date as year, month and day
Date(y, m, d) == [year |-> y, month |-> m, day |-> d]

\* request bodies of POST /transactions (schema TransactionCreate); amounts
\* are in cents
Amounts == {100, 250}

\* transaction_type is any str: the two the application means, and another
TransactionTypes == {"income", "expense", "transfer"}

TransactionCreate ==
    [ account_id       : {AccountId},
      amount           : Amounts,
      transaction_type : TransactionTypes,
      category         : {<< >>, Some("Pets")},
      description      : {<< >>, Some(<<" ">>), Some(<<"coffee">>)},
      transaction_date : {Date(2024, 1, 31)} ]

\* request bodies of PUT /transactions/{id} (schema TransactionUpdate): each
\* field is << >> when the client did not send it, else <<its value>>
NotSent ==
    [amount |-> << >>, transaction_type |-> << >>, category |-> << >>, description |-> << >>]

TransactionUpdate ==
    { NotSent,
      [NotSent EXCEPT !.category = Some(Some("Pets"))],
      [NotSent EXCEPT !.category = Some(<< >>)],
      [NotSent EXCEPT !.amount = Some(250)],
      [NotSent EXCEPT !.transaction_type = Some("income")],
      [NotSent EXCEPT !.description = Some(<< >>)] }

\* transaction ids a client can name: those in use and one that is not
TransactionIds == 1..(MaxTxns + 1)

\* request bodies of POST /transactions/bulk-categorize
IdLists == UNION { [1..n -> TransactionIds] : n \in 0..MaxBatch }

\* a query that does not filter on the owner
Find_AnyOwner(rows, txn_id, user) ==
    IF \E i \in 1..Len(rows) : rows[i].id = txn_id
    THEN CHOOSE i \in 1..Len(rows) : rows[i].id = txn_id
    ELSE 0

\* db.query(Transaction).filter(id == txn_id, user_id == user).first():
\* the position of the row in the table, 0 when there is none
Find(rows, txn_id, user) ==
    IF \E i \in 1..Len(rows) : rows[i].id = txn_id /\ rows[i].user_id = user
    THEN CHOOSE i \in 1..Len(rows) : rows[i].id = txn_id /\ rows[i].user_id = user
    ELSE 0

\* the primary key the database gives a new row: one above the highest
NextId(rows) ==
    IF rows = << >> THEN 1
    ELSE 1 + (CHOOSE n \in { rows[i].id : i \in DOMAIN rows } :
                \A i \in DOMAIN rows : rows[i].id <= n)

\* transactions.py lines 30-137, POST /transactions
create_transaction(user, body) ==
    /\ boot
    /\ Len(txns) < MaxTxns
    /\ IF ~(body.account_id = AccountId /\ user = AccountOwner)
       THEN /\ req' = Response("create_transaction", <<user, body>>, 404,
                                "Account not found", << >>, << >>)
            /\ UNCHANGED <<pipeline, disk, txns, balance>>
       ELSE \E o \in { IF ~Truthy(body.category, "") /\ Truthy(body.description, << >>)
                       THEN CallOf("predict", "predict_86", <<Tokens(body.description[1])>>)
                       ELSE Out(pipeline, disk, Idle, FALSE) } :
            LET predicted == o.l.status = "returned"
                row == [ id                  |-> NextId(txns),
                         user_id             |-> user,
                         account_id          |-> body.account_id,
                         amount              |-> body.amount,
                         transaction_type    |-> body.transaction_type,
                         category            |-> IF Truthy(body.category, "") THEN body.category[1]
                                                 ELSE IF predicted THEN o.l.ret[1]
                                                 ELSE "Other",
                         description         |-> body.description,
                         transaction_date    |-> body.transaction_date,
                         auto_categorized    |-> IF predicted THEN 1 ELSE 0,
                         category_confidence |-> IF predicted THEN Some(<<o.l.ret[2], o.l.ret[3]>>)
                                                 ELSE << >> ]
            IN  /\ pipeline' = o.pipeline
                /\ disk' = o.disk
                /\ txns' = Append(txns, row)
                /\ balance' = IF body.transaction_type = "income"
                              THEN balance + body.amount
                              ELSE balance - body.amount
                /\ req' = Response("create_transaction", <<user, body>>, 201, "", <<row>>,
                                   IF o.l.op = "predict" THEN <<body.description[1]>> ELSE << >>)
    /\ UNCHANGED <<th, boot, fc, clients, clock, budgets>>

\* transactions.py lines 383-483, PUT /transactions/{transaction_id}
update_transaction(user, transaction_id, body) ==
    /\ boot
    /\ LET i == Find(txns, transaction_id, user)
           sent(f) == body[f] # << >>
           old == txns[i]
           new_amount == IF sent("amount") THEN body.amount[1] ELSE old.amount
           new_type   == IF sent("transaction_type") THEN body.transaction_type[1]
                         ELSE old.transaction_type
           reversed   == IF old.transaction_type = "income"
                         THEN balance - old.amount ELSE balance + old.amount
           applied    == IF new_type = "income"
                         THEN reversed + new_amount ELSE reversed - new_amount
           row == [old EXCEPT !.amount = new_amount,
                              !.transaction_type = new_type,
                              !.category = IF sent("category") THEN body.category[1][1] ELSE @,
                              !.description = IF sent("description") THEN body.description[1] ELSE @]
       IN  IF i = 0
           THEN /\ req' = Response("update_transaction", <<user, transaction_id, body>>, 404,
                                    "Transaction not found", << >>, << >>)
                /\ UNCHANGED <<txns, balance>>
           ELSE IF sent("category") /\ body.category[1] = << >>
           THEN \* commit: NOT NULL constraint on category, IntegrityError, rollback
                /\ req' = Response("update_transaction", <<user, transaction_id, body>>, 400,
                                    "Invalid data provided for transaction update", << >>, << >>)
                /\ UNCHANGED <<txns, balance>>
           ELSE /\ txns' = [txns EXCEPT ![i] = row]
                /\ balance' = IF sent("amount") \/ sent("transaction_type")
                              THEN applied ELSE balance
                /\ req' = Response("update_transaction", <<user, transaction_id, body>>, 200,
                                   "", <<row>>, << >>)
    /\ UNCHANGED <<pipeline, disk, th, boot, fc, clients, clock, budgets>>

\* transactions.py lines 486-558, DELETE /transactions/{transaction_id}
delete_transaction(user, transaction_id) ==
    /\ boot
    /\ LET i == Find(txns, transaction_id, user)
       IN  IF i = 0
           THEN /\ req' = Response("delete_transaction", <<user, transaction_id>>, 404,
                                    "Transaction not found", << >>, << >>)
                /\ UNCHANGED <<txns, balance>>
           ELSE /\ balance' = IF txns[i].transaction_type = "income"
                              THEN balance - txns[i].amount
                              ELSE balance + txns[i].amount
                /\ txns' = SubSeq(txns, 1, i - 1) \o SubSeq(txns, i + 1, Len(txns))
                /\ req' = Response("delete_transaction", <<user, transaction_id>>, 204,
                                   "", << >>, << >>)
    /\ UNCHANGED <<pipeline, disk, th, boot, fc, clients, clock, budgets>>

\* lines 589-607: the loop of bulk_categorize_transactions over the ids
\* still to do, from the categorizer state (p, d), the rows and the counts
\* so far
RECURSIVE BulkLoop(_, _, _)
BulkLoop(ids, user, acc) ==
    IF ids = << >> THEN acc
    ELSE LET i == Find(acc.rows, Head(ids), user)
         IN  IF i # 0 /\ Truthy(acc.rows[i].description, << >>)
             THEN CHOOSE r \in
                    { BulkLoop(Tail(ids), user,
                        IF o.l.status = "returned"
                        THEN [ pipeline |-> o.pipeline,
                               disk     |-> o.disk,
                               rows     |-> [acc.rows EXCEPT
                                               ![i].category = o.l.ret[1],
                                               ![i].auto_categorized = 1,
                                               ![i].category_confidence =
                                                   Some(<<o.l.ret[2], o.l.ret[3]>>)],
                               updated  |-> acc.updated + 1,
                               failed   |-> acc.failed,
                               passed   |-> Append(acc.passed, acc.rows[i].description[1]) ]
                        ELSE [acc EXCEPT !.pipeline = o.pipeline,
                                         !.disk = o.disk,
                                         !.failed = @ + 1,
                                         !.passed = Append(@, acc.rows[i].description[1])])
                      : o \in { Run(acc.pipeline, acc.disk,
                                    Start("predict", "predict_86", "None",
                                          <<Tokens(acc.rows[i].description[1])>>)) } } : TRUE
             ELSE BulkLoop(Tail(ids), user, [acc EXCEPT !.failed = @ + 1])

\* transactions.py lines 561-639, POST /transactions/bulk-categorize
bulk_categorize_transactions(user, transaction_ids) ==
    /\ boot
    /\ \E r \in { BulkLoop(transaction_ids, user,
                           [ pipeline |-> pipeline, disk |-> disk, rows |-> txns,
                             updated |-> 0, failed |-> 0, passed |-> << >> ]) } :
          /\ pipeline' = r.pipeline
          /\ disk' = r.disk
          /\ txns' = r.rows
          /\ req' = Response("bulk_categorize_transactions", <<user, transaction_ids>>, 200, "",
                             << [ updated |-> r.updated,
                                  failed  |-> r.failed,
                                  total   |-> Len(transaction_ids) ] >>,
                             r.passed)
    /\ UNCHANGED <<th, boot, balance, fc, clients, clock, budgets>>

TxNext ==
    \/ Startup
    \/ StartupKilled
    \/ Shutdown
    \/ \E user \in Users, body \in TransactionCreate : create_transaction(user, body)
    \/ \E user \in Users, id \in TransactionIds, body \in TransactionUpdate :
          update_transaction(user, id, body)
    \/ \E user \in Users, id \in TransactionIds : delete_transaction(user, id)
    \/ \E user \in Users, ids \in IdLists : bulk_categorize_transactions(user, ids)

TxSpec == Init /\ [][TxNext]_vars

\* ================================================ the forecaster (predictor.py)
\* line 25: the fewest expense rows a forecast is made from
min_transactions == 5

\* line 42: the forecast looks back this many days
WindowDays == 180

\* line 155: get_spending_trends looks back months * 30 days
DaysPerMonth == 30

\* lines 119-121: row counts from which the confidence is medium and high
MediumConfidenceAt == 20

HighConfidenceAt == 50

\* schemas/prediction.py line 35: months_ahead is between 1 and 12
MaxMonthsAhead == 12

\* ------------------------------------------------------------- dates
IsLeap(y) == (y % 4 = 0 /\ y % 100 # 0) \/ y % 400 = 0

\* calendar.monthrange(y, m)[1]
DaysInMonth(y, m) ==
    IF m = 2 THEN (IF IsLeap(y) THEN 29 ELSE 28)
    ELSE IF m \in {4, 6, 9, 11} THEN 30 ELSE 31

RECURSIVE DaysBeforeMonth(_, _)
DaysBeforeMonth(y, m) ==
    IF m = 1 THEN 0 ELSE DaysBeforeMonth(y, m - 1) + DaysInMonth(y, m - 1)

\* date.toordinal(): the day's number, 0001-01-01 being day 1
toordinal(dt) ==
    LET y == dt.year - 1
    IN  y * 365 + (y \div 4) - (y \div 100) + (y \div 400)
          + DaysBeforeMonth(dt.year, dt.month) + dt.day

\* dt + timedelta(days=30 * months): the date 30 days a month on
relativedelta_ThirtyDays(dt, months) ==
    CHOOSE d \in { Date(y, m, n) : y \in dt.year..(dt.year + 1), m \in 1..12, n \in 1..31 } :
        /\ d.day <= DaysInMonth(d.year, d.month)
        /\ toordinal(d) = toordinal(dt) + 30 * months

\* dt + relativedelta(months=months), months >= 0: whole years and months
\* are added to the year and month, and the day is cut to the length of the
\* month arrived at
relativedelta(dt, months) ==
    LET carried == dt.month + (months % 12) > 12
        year    == dt.year + (months \div 12) + (IF carried THEN 1 ELSE 0)
        month   == IF carried THEN dt.month + (months % 12) - 12 ELSE dt.month + (months % 12)
        day     == IF dt.day < DaysInMonth(year, month) THEN dt.day ELSE DaysInMonth(year, month)
    IN  Date(year, month, day)

\* dt.to_period("M"), as a month number
Period(dt) == dt.year * 12 + (dt.month - 1)

\* ---------------------------------------------------------- the rows read
\* a query without the filter on transaction_type
Window_AnyType(rows, user_id, now, days) ==
    SelectSeq(rows, LAMBDA t :
        /\ t.user_id = user_id
        /\ toordinal(t.transaction_date) >= toordinal(now) - days)

\* db.query(Transaction).filter(user_id == user_id, transaction_type ==
\* "expense", transaction_date >= (now - timedelta(days)).date()).all()
Window(rows, user_id, now, days) ==
    SelectSeq(rows, LAMBDA t :
        /\ t.user_id = user_id
        /\ t.transaction_type = "expense"
        /\ toordinal(t.transaction_date) >= toordinal(now) - days)

\* df["category"].unique(): the categories in order of first appearance
RECURSIVE Unique(_)
Unique(s) ==
    IF s = << >> THEN << >>
    ELSE <<Head(s)>> \o Unique(SelectSeq(Tail(s), LAMBDA x : x # Head(s)))

Categories(data) == Unique([i \in 1..Len(data) |-> data[i].category])

\* df[df["category"] == category]
CategoryData(data, category) == SelectSeq(data, LAMBDA t : t.category = category)

\* the amount column's sum, in cents
AmountSum(data) == SumSeq([i \in 1..Len(data) |-> data[i].amount])

\* the members of a finite set of integers in ascending order
RECURSIVE Ascending(_)
Ascending(S) ==
    IF S = {} THEN << >>
    ELSE LET m == CHOOSE x \in S : \A y \in S : x <= y
         IN  <<m>> \o Ascending(S \ {m})

\* groupby(month)["amount"].sum(): one total per month present, by month
MonthlyAmounts(data) ==
    LET months == Ascending({ Period(data[i].transaction_date) : i \in 1..Len(data) })
    IN  [ j \in 1..Len(months) |->
            AmountSum(SelectSeq(data, LAMBDA t : Period(t.transaction_date) = months[j])) ]

\* ------------------------------------------------------------ numbers
\* a float as the exact fraction num / den of cents (den > 0)
Frac(num, den) == [num |-> num, den |-> den]

\* round(x, 2) of an amount x in cents: the nearest whole cent, a tie to the
\* even one
Round2(x) == IF x.num >= 0 THEN RoundTo(x.num, x.den, 1) ELSE 0 - RoundTo(0 - x.num, x.den, 1)

\* Python values whose type the response schema checks
PyList(items) == [py |-> "list", items |-> items]

PyDict(items) == [py |-> "dict", items |-> items]

\* ------------------------------------------------- predict_next_month
\* lines 88-93
Trend(monthly_amounts) ==
    IF Len(monthly_amounts) > 1
    THEN Frac(monthly_amounts[Len(monthly_amounts)] - monthly_amounts[1], Len(monthly_amounts))
    ELSE Frac(0, 1)

\* a predicted amount that is not cut off at zero
PredictedAmount_NoFloor(avg_amount, trend, months_ahead) ==
    Frac(avg_amount.num * trend.den + trend.num * months_ahead * avg_amount.den,
         avg_amount.den * trend.den)

\* lines 97-98: avg_amount + trend * months_ahead, then max(0, .)
PredictedAmount(avg_amount, trend, months_ahead) ==
    LET x == Frac(avg_amount.num * trend.den + trend.num * months_ahead * avg_amount.den,
                  avg_amount.den * trend.den)
    IN  IF x.num < 0 THEN Frac(0, 1) ELSE x

\* a label that calls a trend of 0 increasing
TrendLabel_ZeroIncreasing(trend) ==
    IF trend.num >= 0 THEN "increasing" ELSE "decreasing"

\* lines 107-111
TrendLabel(trend) ==
    IF trend.num > 0 THEN "increasing"
    ELSE IF trend.num < 0 THEN "decreasing"
    ELSE "stable"

\* tiers that start above the thresholds instead of at them
ConfidenceTier_Above(total_transactions) ==
    IF total_transactions > HighConfidenceAt THEN "high"
    ELSE IF total_transactions > MediumConfidenceAt THEN "medium"
    ELSE "low"

\* lines 119-124
ConfidenceTier(total_transactions) ==
    IF total_transactions >= HighConfidenceAt THEN "high"
    ELSE IF total_transactions >= MediumConfidenceAt THEN "medium"
    ELSE "low"

\* a result for too few rows whose predictions are an empty dict
Degraded_DictPredictions(now, months_ahead) ==
    [ predictions     |-> PyDict(<< >>),
      total_predicted |-> 0,
      confidence      |-> "low",
      message         |-> "Need at least 5 transactions for predictions",
      prediction_date |-> relativedelta(now, months_ahead) ]

\* lines 55-62: the result when there are too few rows
Degraded(now, months_ahead) ==
    [ predictions     |-> PyList(<< >>),
      total_predicted |-> 0,
      confidence      |-> "low",
      message         |-> "Need at least 5 transactions for predictions",
      prediction_date |-> relativedelta(now, months_ahead) ]

\* lines 27-138: the result of predict_next_month on the table rows at now
PredictNextMonth(rows, user_id, months_ahead, now) ==
    LET transactions == Window(rows, user_id, now, WindowDays)
        cats         == Categories(transactions)
        data(c)      == CategoryData(transactions, c)
        avg(c)       == Frac(AmountSum(data(c)), Len(data(c)))
        trend(c)     == Trend(MonthlyAmounts(data(c)))
        predictions  == [ c \in Members(cats) |->
                            Round2(PredictedAmount(avg(c), trend(c), months_ahead)) ]
    IN  IF Len(transactions) < min_transactions
        THEN Degraded(now, months_ahead)
        ELSE [ predictions     |-> PyList(<<PyDict(predictions)>>),
               total_predicted |-> SumFn(predictions),
               confidence      |-> ConfidenceTier(Len(transactions)),
               prediction_date |-> relativedelta(now, months_ahead),
               stats           |-> [ c \in Members(cats) |->
                                       [ average |-> Round2(avg(c)),
                                         count   |-> Len(data(c)),
                                         trend   |-> TrendLabel(trend(c)) ] ],
               data_points     |-> Len(transactions) ]

\* ------------------------------------------------- get_spending_trends
\* a change computed without looking at the first month's total
PercentageChange_Unguarded(first_month, last_month) ==
    Frac((last_month - first_month) * 100, first_month)

\* lines 195-198: the change from the first month to the last, in percent
PercentageChange(first_month, last_month) ==
    IF first_month > 0
    THEN Frac((last_month - first_month) * 100, first_month)
    ELSE Frac(0, 1)

\* lines 200-206: the label, from the unrounded change
TrendDirection(percentage_change) ==
    IF percentage_change.num > 10 * percentage_change.den THEN "increasing"
    ELSE IF percentage_change.num < (0 - 10) * percentage_change.den THEN "decreasing"
    ELSE "stable"

\* lines 183-216: the entry of one category with two or more months;
\* percentage_change is reported in hundredths of a percent
TrendEntry(category, monthly) ==
    LET first_month == monthly[1]
        last_month  == monthly[Len(monthly)]
        change      == PercentageChange(first_month, last_month)
    IN  [ category          |-> category,
          monthly_average   |-> Round2(Frac(SumSeq(monthly), Len(monthly))),
          trend             |-> TrendDirection(change),
          percentage_change |-> Round2(Frac(change.num * 100, change.den)),
          last_month_amount |-> last_month ]

\* trends with an entry for every category in the window
SpendingTrends_EveryCategory(rows, user_id, months, now) ==
    LET transactions == Window(rows, user_id, now, months * DaysPerMonth)
        cats         == Categories(transactions)
        monthly(c)   == MonthlyAmounts(CategoryData(transactions, c))
    IN  [ j \in 1..Len(cats) |-> TrendEntry(cats[j], monthly(cats[j])) ]

\* lines 140-218: the result of get_spending_trends
SpendingTrends(rows, user_id, months, now) ==
    LET transactions == Window(rows, user_id, now, months * DaysPerMonth)
        cats         == Categories(transactions)
        monthly(c)   == MonthlyAmounts(CategoryData(transactions, c))
        kept         == SelectSeq(cats, LAMBDA c : Len(monthly(c)) >= 2)
    IN  [ j \in 1..Len(kept) |-> TrendEntry(kept[j], monthly(kept[j])) ]

\* ------------------------------------------------- the response schema
\* schemas/prediction.py lines 40-46, PredictionResponse: predictions is a
\* List[Dict[str, float]], total_predicted a float, prediction_date a date,
\* confidence a str; message is optional and other keys are ignored
PredictionResponse(r) ==
    /\ {"predictions", "total_predicted", "prediction_date", "confidence"} \subseteq DOMAIN r
    /\ r.predictions.py = "list"
    /\ \A i \in DOMAIN r.predictions.items :
          /\ r.predictions.items[i].py = "dict"
          /\ \A k \in DOMAIN r.predictions.items[i].items :
                k \in STRING /\ r.predictions.items[i].items[k] \in Int
    /\ r.total_predicted \in Int
    /\ DOMAIN r.prediction_date = {"year", "month", "day"}
    /\ r.prediction_date.month \in 1..12
    /\ r.prediction_date.day \in 1..DaysInMonth(r.prediction_date.year, r.prediction_date.month)
    /\ r.confidence \in STRING
    /\ "message" \in DOMAIN r => r.message \in STRING

\* ------------------------------------------------- the tables forecast from
\* a stored row with no description, categorised by the client
Row(id, user_id, amount, transaction_type, category, transaction_date) ==
    [ id                  |-> id,
      user_id             |-> user_id,
      account_id          |-> user_id,
      amount              |-> amount,
      transaction_type    |-> transaction_type,
      category            |-> category,
      description         |-> << >>,
      transaction_date    |-> transaction_date,
      auto_categorized    |-> 0,
      category_confidence |-> << >> ]

\* a table: user 1's Food expenses, n1 of amount a1 on 2024-03-10 and n2 of
\* amount a2 on 2024-05-10, and, when others is set, four more rows: an
\* expense of user 1 in another category, an income of user 1, an expense
\* of user 2, and an expense of user 1 from long ago
History(n1, a1, n2, a2, others) ==
    LET march == [i \in 1..n1 |-> Row(i, 1, a1, "expense", "Food", Date(2024, 3, 10))]
        may   == [i \in 1..n2 |-> Row(n1 + i, 1, a2, "expense", "Food", Date(2024, 5, 10))]
        n     == n1 + n2
    IN  march \o may \o
        ( IF others
          THEN << Row(n + 1, 1, 700, "expense", "Transport", Date(2024, 5, 2)),
                  Row(n + 2, 1, 5000, "income", "Income", Date(2024, 5, 3)),
                  Row(n + 3, 2, 900, "expense", "Food", Date(2024, 5, 4)),
                  Row(n + 4, 1, 800, "expense", "Food", Date(2023, 1, 5)) >>
          ELSE << >> )

\* row counts on both sides of min_transactions and of the two confidence
\* thresholds
MarchCounts ==
    {0, 1, 2, min_transactions - 1, MediumConfidenceAt - 1, HighConfidenceAt - 1}

MayCounts == {0, 1, 2}

\* the amounts of the March and of the May rows, in cents
AmountPairs == { <<2009, 2210>>, <<1000, 1100>>, <<1000, 1101>>, <<1000, 1000>>, <<3000, 100>> }

Histories ==
    { History(n1, a[1], n2, a[2], others) :
        n1 \in MarchCounts, n2 \in MayCounts, a \in AmountPairs, others \in BOOLEAN }

\* the days on which the forecaster is called
Nows == { Date(2023, 12, 31), Date(2024, 1, 31), Date(2024, 5, 31), Date(2024, 9, 30) }

MonthsAhead == {1, 2, MaxMonthsAhead}

TrendMonths == {1, 6}

\* the database as the forecaster finds it; no server process is involved
FcInit ==
    /\ InitCategorizer
    /\ boot = FALSE
    /\ req = NoRequest
    /\ txns \in Histories
    /\ balance = 0
    /\ fc = NoCall
    /\ clients = NoClients
    /\ clock = 0
    /\ budgets = << >>

\* a predictor that answers from its last forecast when it has one
predict_next_month_Cached(user_id, months_ahead, now) ==
    /\ fc' = [ op |-> "predict_next_month", user_id |-> user_id, months |-> months_ahead,
               now |-> now,
               result |-> IF fc.op = "predict_next_month" THEN fc.result
                          ELSE PredictNextMonth(txns, user_id, months_ahead, now) ]
    /\ UNCHANGED <<pipeline, disk, th, boot, req, txns, balance,
                   clients, clock, budgets>>

\* predictor.predict_next_month(db, user_id, months_ahead) called at now
predict_next_month(user_id, months_ahead, now) ==
    /\ fc' = [ op |-> "predict_next_month", user_id |-> user_id, months |-> months_ahead,
               now |-> now, result |-> PredictNextMonth(txns, user_id, months_ahead, now) ]
    /\ UNCHANGED <<pipeline, disk, th, boot, req, txns, balance,
                   clients, clock, budgets>>

\* predictor.get_spending_trends(db, user_id, months) called at now
get_spending_trends(user_id, months, now) ==
    /\ fc' = [ op |-> "get_spending_trends", user_id |-> user_id, months |-> months,
               now |-> now, result |-> SpendingTrends(txns, user_id, months, now) ]
    /\ UNCHANGED <<pipeline, disk, th, boot, req, txns, balance,
                   clients, clock, budgets>>

FcNext ==
    \/ \E user_id \in Users, months_ahead \in MonthsAhead, now \in Nows :
          predict_next_month(user_id, months_ahead, now)
    \/ \E user_id \in Users, months \in TrendMonths, now \in Nows :
          get_spending_trends(user_id, months, now)

FcSpec == FcInit /\ [][FcNext]_vars

\* --------------------------------------- predict_category_for_month
\* line 236: the single-category forecast looks back this many days
YearDays == 365

\* line 249: the fewest rows of the category it is made from
MinCategoryPoints == 3

\* round(sqrt(d) / q, 0) for integers d >= 0 and q > 0, a tie going to the
\* even neighbour; top is a number the result cannot exceed
RoundRoot(d, q, top) ==
    CHOOSE k \in 0..top :
        LET lo == (2 * k - 1) * q
            hi == (2 * k + 1) * q
        IN  IF k % 2 = 0
            THEN (lo <= 0 \/ lo * lo <= 4 * d) /\ 4 * d <= hi * hi
            ELSE lo * lo < 4 * d /\ 4 * d < hi * hi

\* n * sum(x^2) - sum(x)^2 of a list of amounts: n^2 times the variance
\* np.std takes the root of
SquaredSpread(amounts) ==
    Len(amounts) * SumSeq([i \in DOMAIN amounts |-> amounts[i] * amounts[i]])
        - SumSeq(amounts) * SumSeq(amounts)

\* a confidence that is not cut off at zero
CategoryConfidence_NoFloor(amounts) ==
    LET spread == SquaredSpread(amounts)
        total  == SumSeq(amounts)
    IN  IF spread > 0
        THEN 100 - RoundRoot(10000 * spread, total, 300)
        ELSE 100

\* lines 259-267 and 272: round(max(0, 1 - std / mean), 2), or 1.0 when the
\* standard deviation is 0, in hundredths; std / mean is
\* sqrt(SquaredSpread) / sum
CategoryConfidence(amounts) ==
    LET spread == SquaredSpread(amounts)
        total  == SumSeq(amounts)
    IN  IF spread > 0
        THEN (IF spread >= total * total THEN 0
              ELSE 100 - RoundRoot(10000 * spread, total, 100))
        ELSE 100

\* lines 220-276: the result of predict_category_for_month; amounts in
\* cents, confidence in hundredths; target_month is not read
PredictCategoryForMonth(rows, user_id, category, target_month, now) ==
    LET transactions == CategoryData(Window(rows, user_id, now, YearDays), category)
        amounts      == [i \in 1..Len(transactions) |-> transactions[i].amount]
        avg_amount   == Frac(SumSeq(amounts), Len(amounts))
    IN  IF Len(transactions) < MinCategoryPoints
        THEN [ category         |-> category,
               predicted_amount |-> 0,
               confidence       |-> 0,
               message          |-> "Insufficient data for this category" ]
        ELSE [ category           |-> category,
               predicted_amount   |-> Round2(avg_amount),
               confidence         |-> CategoryConfidence(amounts),
               historical_average |-> Round2(avg_amount),
               std_deviation      |-> RoundRoot(SquaredSpread(amounts), Len(amounts),
                                                SumSeq(amounts)),
               transaction_count  |-> Len(transactions) ]

\* ------------------------------------- the three operations side by side
\* the most rows of one category in one month of a ledger
MaxMonthRows == 3

\* a table: user 1's Food expenses, n1 of amount a1 on 2024-03-10 and n2 of
\* amount a2 on 2024-05-10, and, when others is set, four more rows: an
\* expense of user 1 in another category, an income of user 1 in the same
\* category, an expense of user 2, and an expense of user 1 from long ago
Ledger(n1, a1, n2, a2, others) ==
    LET march == [i \in 1..n1 |-> Row(i, 1, a1, "expense", "Food", Date(2024, 3, 10))]
        may   == [i \in 1..n2 |-> Row(n1 + i, 1, a2, "expense", "Food", Date(2024, 5, 10))]
        n     == n1 + n2
    IN  march \o may \o
        ( IF others
          THEN << Row(n + 1, 1, 7, "expense", "Transport", Date(2024, 5, 2)),
                  Row(n + 2, 1, 50, "income", "Food", Date(2024, 5, 3)),
                  Row(n + 3, 2, 9, "expense", "Food", Date(2024, 5, 4)),
                  Row(n + 4, 1, 8, "expense", "Food", Date(2023, 1, 5)) >>
          ELSE << >> )

\* the amounts of the March and of the May rows, in cents: equal ones, and
\* ones so far apart that the standard deviation exceeds the mean
LedgerAmounts == { <<1, 1>>, <<1, 20>>, <<20, 1>>, <<3, 4>> }

Ledgers ==
    { Ledger(n1, a[1], n2, a[2], others) :
        n1 \in 0..MaxMonthRows, n2 \in 0..MaxMonthRows, a \in LedgerAmounts,
        others \in BOOLEAN }

\* days of the calls: one with both months inside every window, one with
\* them inside the 365 days only
LedgerNows == { Date(2024, 5, 31), Date(2024, 12, 31) }

LedgerMonthsAhead == {1, 2}

ForecastCategories == {"Food", "Transport", "Pets"}

TargetMonths == { Date(2024, 6, 1), Date(2025, 1, 1) }

ForecasterInit ==
    /\ InitCategorizer
    /\ boot = FALSE
    /\ req = NoRequest
    /\ txns \in Ledgers
    /\ balance = 0
    /\ fc = NoCall
    /\ clients = NoClients
    /\ clock = 0
    /\ budgets = << >>

\* predictor.predict_category_for_month(db, user_id, category, target_month)
\* called at now
predict_category_for_month(user_id, category, target_month, now) ==
    /\ fc' = [ op |-> "predict_category_for_month", user_id |-> user_id,
               category |-> category, target_month |-> target_month, now |-> now,
               result |-> PredictCategoryForMonth(txns, user_id, category, target_month, now) ]
    /\ UNCHANGED <<pipeline, disk, th, boot, req, txns, balance,
                   clients, clock, budgets>>

ForecasterNext ==
    \/ \E user_id \in Users, months_ahead \in LedgerMonthsAhead, now \in LedgerNows :
          predict_next_month(user_id, months_ahead, now)
    \/ \E user_id \in Users, months \in TrendMonths, now \in LedgerNows :
          get_spending_trends(user_id, months, now)
    \/ \E user_id \in Users, category \in ForecastCategories, target_month \in TargetMonths,
          now \in LedgerNows :
          predict_category_for_month(user_id, category, target_month, now)

ForecasterSpec == ForecasterInit /\ [][ForecasterNext]_vars

\* ===================================== the rate limiter (rate_limit.py)
\* rate_limit.py line 22 and main.py lines 171-175: the requests allowed per
\* period and the period in seconds, scaled down from the configured 100
\* and 60
calls == 2

period == 3

\* the last second of the clock
MaxClock == 6

\* lines 78-79 and 95-96: requests at or before now - period leave the
\* front of the deque
RECURSIVE Prune(_, _)
Prune(client_requests, now) ==
    IF client_requests # << >> /\ Head(client_requests) <= now - period
    THEN Prune(Tail(client_requests), now)
    ELSE client_requests

\* lines 72-87, _is_allowed at time now: the answer and the deque it leaves
IsAllowed(client_requests, now) ==
    LET kept == Prune(client_requests, now)
    IN  IF Len(kept) >= calls
        THEN [allowed |-> FALSE, client_requests |-> kept]
        ELSE [allowed |-> TRUE, client_requests |-> Append(kept, now)]

\* lines 89-98, _get_remaining_requests at time now
RemainingRequests(client_requests, now) ==
    LET left == calls - Len(Prune(client_requests, now))
    IN  IF left > 0 THEN left ELSE 0

\* lines 36-57, dispatch for a request of client_ip arriving now = clock.
\* A request that is not allowed raises HTTPException(429) inside the
\* middleware; main.py adds the middleware with add_middleware and registers
\* no handler, so the exception passes the middlewares above it and the
\* server answers 500 Internal Server Error.  An allowed request goes on to
\* the application, which takes taken seconds, and the headers are set from
\* the deque as pruned at that later time.
dispatch(client_ip) ==
    \E a \in {IsAllowed(clients[client_ip], clock)} :
        IF ~a.allowed
        THEN /\ clients' = [clients EXCEPT ![client_ip] = a.client_requests]
             /\ req' = Response("dispatch", <<client_ip, clock>>, 500,
                                "Internal Server Error", << >>, << >>)
             /\ UNCHANGED <<pipeline, disk, th, boot, txns, balance, fc, clock, budgets>>
        ELSE \E taken \in 0..1 :
             /\ clock + taken <= MaxClock
             /\ clock' = clock + taken
             /\ clients' = [clients EXCEPT
                              ![client_ip] = Prune(a.client_requests, clock + taken)]
             /\ req' = Response("dispatch", <<client_ip, clock>>, 200, "",
                                << [ limit     |-> calls,
                                     remaining |-> RemainingRequests(a.client_requests,
                                                                     clock + taken),
                                     reset     |-> clock + taken + period ] >>,
                                << >>)
             /\ UNCHANGED <<pipeline, disk, th, boot, txns, balance, fc, budgets>>

\* a second passes with no request
Tick ==
    /\ clock < MaxClock
    /\ clock' = clock + 1
    /\ UNCHANGED <<pipeline, disk, th, boot, req, txns, balance, fc, clients, budgets>>

RateNext ==
    \/ \E client_ip \in ClientIps : dispatch(client_ip)
    \/ Tick

RateSpec == Init /\ [][RateNext]_vars

\* ========================================== the budgets API (budgets.py)
\* the most rows the budgets table holds
MaxBudgets == 2

BudgetCategories == {"Food", "Transport"}

\* request bodies of POST /budgets (schema BudgetCreate); the limit in cents
BudgetCreate ==
    [ category        : BudgetCategories,
      limit_amount    : {10000},
      period          : {"weekly", "monthly"},
      alert_threshold : {80} ]

\* request bodies of PUT /budgets/{id} (schema BudgetUpdate): each field is
\* << >> when the client did not send it, else <<its value>>
BudgetNotSent ==
    [category |-> << >>, limit_amount |-> << >>, period |-> << >>, alert_threshold |-> << >>]

BudgetUpdate ==
    { BudgetNotSent,
      [BudgetNotSent EXCEPT !.limit_amount = Some(20000)],
      [BudgetNotSent EXCEPT !.period = Some("yearly")] }
    \cup { [BudgetNotSent EXCEPT !.category = Some(c)] : c \in BudgetCategories }

\* budget ids a client can name: those in use and one that is not
BudgetIds == 1..(MaxBudgets + 1)

\* db.query(Budget).filter(id == budget_id, user_id == user).first(): the
\* position of the row in the table, 0 when there is none
FindBudget(rows, budget_id, user) ==
    IF \E i \in 1..Len(rows) : rows[i].id = budget_id /\ rows[i].user_id = user
    THEN CHOOSE i \in 1..Len(rows) : rows[i].id = budget_id /\ rows[i].user_id = user
    ELSE 0

\* budgets.py lines 17-46, POST /budgets
create_budget(user, body) ==
    /\ boot
    /\ Len(budgets) < MaxBudgets
    /\ LET existing == \E i \in DOMAIN budgets :
                          /\ budgets[i].user_id = user
                          /\ budgets[i].category = body.category
                          /\ budgets[i].period = body.period
           row == [ id              |-> NextId(budgets),
                    user_id         |-> user,
                    category        |-> body.category,
                    limit_amount    |-> body.limit_amount,
                    period          |-> body.period,
                    alert_threshold |-> body.alert_threshold ]
       IN  IF existing
           THEN /\ req' = Response("create_budget", <<user, body>>, 400,
                                    "Budget already exists", << >>, << >>)
                /\ UNCHANGED budgets
           ELSE /\ budgets' = Append(budgets, row)
                /\ req' = Response("create_budget", <<user, body>>, 201, "", <<row>>, << >>)
    /\ UNCHANGED <<pipeline, disk, th, boot, txns, balance, fc, clients, clock>>

\* budgets.py lines 133-160, PUT /budgets/{budget_id}
update_budget(user, budget_id, body) ==
    /\ boot
    /\ LET i == FindBudget(budgets, budget_id, user)
           sent(f) == body[f] # << >>
           row == [budgets[i] EXCEPT
                     !.category = IF sent("category") THEN body.category[1] ELSE @,
                     !.limit_amount = IF sent("limit_amount") THEN body.limit_amount[1] ELSE @,
                     !.period = IF sent("period") THEN body.period[1] ELSE @,
                     !.alert_threshold =
                         IF sent("alert_threshold") THEN body.alert_threshold[1] ELSE @]
       IN  IF i = 0
           THEN /\ req' = Response("update_budget", <<user, budget_id, body>>, 404,
                                    "Budget not found", << >>, << >>)
                /\ UNCHANGED budgets
           ELSE /\ budgets' = [budgets EXCEPT ![i] = row]
                /\ req' = Response("update_budget", <<user, budget_id, body>>, 200, "",
                                   <<row>>, << >>)
    /\ UNCHANGED <<pipeline, disk, th, boot, txns, balance, fc, clients, clock>>

\* budgets.py lines 163-186, DELETE /budgets/{budget_id}
delete_budget(user, budget_id) ==
    /\ boot
    /\ LET i == FindBudget(budgets, budget_id, user)
       IN  IF i = 0
           THEN /\ req' = Response("delete_budget", <<user, budget_id>>, 404,
                                    "Budget not found", << >>, << >>)
                /\ UNCHANGED budgets
           ELSE /\ budgets' = SubSeq(budgets, 1, i - 1) \o SubSeq(budgets, i + 1, Len(budgets))
                /\ req' = Response("delete_budget", <<user, budget_id>>, 204, "", << >>, << >>)
    /\ UNCHANGED <<pipeline, disk, th, boot, txns, balance, fc, clients, clock>>

BudgetNext ==
    \/ Startup
    \/ Shutdown
    \/ \E user \in Users, body \in BudgetCreate : create_budget(user, body)
    \/ \E user \in Users, id \in BudgetIds, body \in BudgetUpdate :
          update_budget(user, id, body)
    \/ \E user \in Users, id \in BudgetIds : delete_budget(user, id)

BudgetSpec == Init /\ [][BudgetNext]_vars

\* ------------------------------- bulk-categorize over an existing table
\* a stored row with the description given, entered by hand as "Other"
Stored(id, user_id, description) ==
    [Row(id, user_id, 100, "expense", "Other", Date(2024, 1, 31))
        EXCEPT !.description = description]

\* descriptions of stored rows: none, the empty string, a blank, a word
StoredDescriptions == { << >>, Some(<< >>), Some(<<" ">>), Some(<<"coffee">>) }

\* the table when the server starts: empty, one row of user 1, or that row
\* and a second one of either user
StoredTables ==
    { << >> }
    \cup { <<Stored(1, 1, d)>> : d \in StoredDescriptions }
    \cup { <<Stored(1, 1, d), Stored(2, u, e)>> :
             d \in StoredDescriptions, u \in Users, e \in {<< >>, Some(<<"coffee">>)} }

\* request bodies of POST /transactions/bulk-categorize over those tables:
\* up to two ids out of the two in use and one that is not
StoredIdLists == UNION { [1..n -> {1, 2, 3}] : n \in 0..2 }

BulkInit ==
    /\ InitCategorizer
    /\ boot = FALSE
    /\ req = NoRequest
    /\ txns \in StoredTables
    /\ balance = 0
    /\ fc = NoCall
    /\ clients = NoClients
    /\ clock = 0
    /\ budgets = << >>

BulkNext ==
    \/ Startup
    \/ StartupKilled
    \/ Shutdown
    \/ \E user \in Users, ids \in StoredIdLists : bulk_categorize_transactions(user, ids)

BulkSpec == BulkInit /\ [][BulkNext]_vars

\* =================================================================== claims
\* code positions of the methods
TrainLabels == {"train_40", "train_64", "train_64_tfidf", "train_64_clf", "train_67"}

SaveLabels == {"save_125", "save_133"}

InferLabels == {"predict_96", "predict_99", "batch_117", "batch_118"}

\* the model train() builds from the bundled corpus
BundledModel ==
    LET part == TrainPart(TRAINING_DATA)
    IN  [ kind |-> "Pipeline",
          vec  |-> FitVec(Docs(part)),
          clf  |-> FitClf(Docs(part), Labels(part), Vocabulary(Docs(part))) ]

\* the only caller of the one-caller system has just made a call of op
Called(op) == th'[1].op = op /\ th'[1].status # "running"

\* C1: whenever a thread is about to run inference in predict or
\* predict_batch, the model reference it reads is absent or a completely
\* fitted model (train binds the reference only once fitting has finished).
C1_InferenceNeverSeesPartialModel ==
    \A t \in Threads :
        Running(t, InferLabels) => (pipeline = None \/ IsFitted(pipeline))

\* C2: a predict called with no model in memory and no artifact trains from
\* the bundled corpus, saves, and returns with that model in memory and on
\* disk; with an artifact it loads it and writes nothing; and a predict
\* called with a model in memory does no load, no train and no save.
C2_ColdStartThenIdempotent ==
    [][ Called("predict") =>
          /\ (pipeline = None /\ ~disk.exists) =>
                /\ th'[1].status = "returned"
                /\ pipeline' = BundledModel
                /\ disk' = [exists |-> TRUE, bytes |-> Dumps(BundledModel)]
          /\ (pipeline = None /\ disk.exists) =>
                /\ pipeline' = Loads(disk.bytes)
                /\ disk' = disk
          /\ (pipeline # None) => (pipeline' = pipeline /\ disk' = disk)
      ]_vars

\* a predict has returned with the bundled model in memory and persisted
C2_Witness ==
    /\ th[1].op = "predict" /\ th[1].status = "returned"
    /\ pipeline = BundledModel
    /\ disk = [exists |-> TRUE, bytes |-> Dumps(BundledModel)]

\* C3: at most one thread at a time is inside the train-and-cache section
\* (the train and save_model calls of predict's and initialize_model's
\* no-model branch).
InTrainAndCache(t) ==
    /\ th[t].op \in {"predict", "initialize_model"}
    /\ Running(t, TrainLabels \cup SaveLabels)

C3_TrainAndCacheIsExclusive ==
    \A t, u \in Threads : (InTrainAndCache(t) /\ InTrainAndCache(u)) => t = u

\* the outcome of predict(desc) called in the current state
PredictOutcome(desc) ==
    LET l == Run(pipeline, disk, Start("predict", "predict_86", "None", <<desc>>)).l
    IN  <<l.status, l.exc, l.ret>>

\* the outcome for item i of predict_batch(xs) called in the current state
BatchOutcome(xs, i) ==
    LET l == Run(pipeline, disk, Start("predict_batch", "batch_114", "None", xs)).l
    IN  <<l.status, l.exc, IF l.status = "returned" THEN l.ret[i] ELSE <<>> >>

\* C4: in every state of the categorizer, for every batch xs and index i,
\* predict_batch(xs)[i] has the outcome of predict(xs[i]).
C4_BatchAgreesWithSingle ==
    \A xs \in Batches : \A i \in 1..Len(xs) : BatchOutcome(xs, i) = PredictOutcome(xs[i])

\* C5: no call of predict ends with the exception of a failed load of the
\* artifact.
C5_LoadFailureNotSurfaced ==
    \A t \in Threads :
        ~(th[t].op = "predict" /\ th[t].status = "raised" /\ th[t].exc = "EOFError")

C7_SaveModel ==
    [][ Called("save_model") =>
          /\ pipeline' = pipeline
          /\ IF pipeline = None
             THEN th'[1].status = "raised" /\ th'[1].exc = "ValueError" /\ disk' = disk
             ELSE th'[1].status = "returned" /\ disk' = [exists |-> TRUE, bytes |-> Dumps(pipeline)]
      ]_vars

\* save_model has failed on a categorizer with no model, an artifact present
C7_Witness ==
    /\ th[1].op = "save_model" /\ th[1].status = "raised" /\ th[1].exc = "ValueError"
    /\ pipeline = None
    /\ disk.exists

\* C8: load_model returns True exactly when the file holds a usable model,
\* which it installs; with no file it returns False and leaves the model
\* reference as it was.
C8_LoadModel ==
    [][ Called("load_model") =>
          /\ (th'[1].status = "returned" /\ th'[1].ret = <<TRUE>>)
                <=> (/\ disk.exists /\ CanLoad(disk.bytes)
                     /\ IsUsable(Loads(disk.bytes))
                     /\ pipeline' = Loads(disk.bytes))
          /\ ~disk.exists =>
                (th'[1].status = "returned" /\ th'[1].ret = <<FALSE>> /\ pipeline' = pipeline)
      ]_vars

\* C9: a call of train leaves the file as it was, and on success leaves in
\* memory the model fitted on its corpus; the file changes only in calls that
\* run save_model.
C9_TrainDoesNotPersist ==
    [][ /\ Called("train") =>
            /\ disk' = disk
            /\ th'[1].status = "returned" =>
                  LET part == TrainPart(DataOf(th'[1].td))
                  IN  pipeline' = [ kind |-> "Pipeline",
                                    vec  |-> FitVec(Docs(part)),
                                    clf  |-> FitClf(Docs(part), Labels(part), Vocabulary(Docs(part))) ]
        /\ disk' # disk => th'[1].op \in {"save_model", "predict", "initialize_model"}
      ]_vars

\* train has returned, with a model in memory and still no file
C9_Witness ==
    /\ th[1].op = "train" /\ th[1].status = "returned"
    /\ IsFitted(pipeline)
    /\ ~disk.exists

\* C10: train with an empty collection raises (ValueError, the training
\* error) and leaves the model in memory and the file as they were.
C10_EmptyTrainingKeepsModel ==
    [][ (Called("train") /\ th'[1].td = "empty") =>
          /\ th'[1].status = "raised" /\ th'[1].exc = "ValueError"
          /\ pipeline' = pipeline
          /\ disk' = disk
      ]_vars

\* train([]) has failed on a categorizer that holds a trained model
C10_Witness ==
    /\ th[1].op = "train" /\ th[1].td = "empty" /\ th[1].status = "raised"
    /\ IsUsable(pipeline)

\* C11: every returned predict, on any model the one caller can reach by
\* train (bundled or own corpus), load_model or a cold start, gives a
\* category of get_categories() and a confidence between 0 and 1.
C11_PredictInTaxonomy ==
    (th[1].op = "predict" /\ th[1].status = "returned") =>
        /\ th[1].ret[1] \in Members(get_categories)
        /\ 0 <= th[1].ret[2]
        /\ th[1].ret[2] <= th[1].ret[3]
        /\ th[1].ret[3] > 0

\* C12: after any sequence of create_transaction, update_transaction and
\* bulk_categorize_transactions every stored transaction's category is a
\* member of the taxonomy, and a transaction created with no category that
\* could not be classified has the category "Other".
C12_StoredCategoryInTaxonomy ==
    /\ \A i \in 1..Len(txns) : txns[i].category \in Members(get_categories)
    /\ ( /\ req.ep = "create_transaction" /\ req.status = 201
         /\ ~Truthy(req.args[2].category, "")
         /\ req.body[1].auto_categorized = 0 ) => req.body[1].category = "Other"

\* a blank description: empty, or nothing but whitespace
IsBlank(description) == Strip(description) = << >>

\* C13: the calling layer rejects a blank description before the categorizer
\* is invoked: /categorize answers a blank description with the empty-input
\* error (HTTP 400), and no request hands the categorizer a blank description.
C13_BlankNeverReachesCategorizer ==
    /\ (req.ep = "categorize" /\ IsBlank(req.args[1])) =>
          (req.status = 400 /\ req.detail = "Description cannot be empty")
    /\ \A i \in 1..Len(req.passed) : ~IsBlank(req.passed[i])

\* C14: /categorize-batch answers more than 100 descriptions with the
\* too-many-items error and an empty list with the empty-input error, in both
\* cases without invoking the categorizer; for 1 to 100 descriptions it
\* returns one {description, category, confidence} entry per input, in order.
C14_BatchValidation ==
    req.ep = "categorize_batch" =>
        /\ Len(req.args) > MaxDescriptions =>
              /\ req.status = 400
              /\ req.detail = "Maximum 100 descriptions allowed per request"
              /\ req.passed = << >>
        /\ Len(req.args) = 0 =>
              /\ req.status = 400
              /\ req.detail = "Descriptions list cannot be empty"
              /\ req.passed = << >>
        /\ Len(req.args) \in 1..MaxDescriptions =>
              /\ req.status = 200
              /\ Len(req.body) = Len(req.args)
              /\ \A i \in 1..Len(req.args) :
                    /\ DOMAIN req.body[i] = {"description", "category", "confidence"}
                    /\ req.body[i].description = req.args[i]

\* ------------------------------------------------------ the forecaster
\* the rows of the table that the forecaster call recorded in fc has to
\* read: the caller's expenses dated within the last days days
InWindow(days) ==
    { i \in DOMAIN txns :
        /\ txns[i].user_id = fc.user_id
        /\ txns[i].transaction_type = "expense"
        /\ toordinal(txns[i].transaction_date) >= toordinal(fc.now) - days }

RowsOf(c) == { i \in InWindow(WindowDays) : txns[i].category = c }

MonthsOf(c) == { Period(txns[i].transaction_date) : i \in RowsOf(c) }

TotalOf(I) == SumFn([i \in I |-> txns[i].amount])

MonthTotal(c, m) == TotalOf({ i \in RowsOf(c) : Period(txns[i].transaction_date) = m })

\* last month's total minus first month's total for a category present in
\* two or more months, else 0: the trend times the number of months
TrendTimesMonths(c) ==
    LET first == CHOOSE m \in MonthsOf(c) : \A x \in MonthsOf(c) : m <= x
        last  == CHOOSE m \in MonthsOf(c) : \A x \in MonthsOf(c) : m >= x
    IN  IF Cardinality(MonthsOf(c)) >= 2 THEN MonthTotal(c, last) - MonthTotal(c, first) ELSE 0

\* the categories a forecast reports
Forecast == fc.result.predictions.items[1].items

\* C16: for each category of a forecast the predicted amount is
\* max(0, mean + trend * months_ahead), to the cent, where the trend is (last
\* month's total - first month's total) / number of distinct months when the
\* category has two or more months and 0 otherwise; it is never negative.
C16_PredictedAmount ==
    (fc.op = "predict_next_month" /\ fc.result.predictions.items # << >>) =>
        /\ DOMAIN Forecast = { txns[i].category : i \in InWindow(WindowDays) }
        /\ \A c \in DOMAIN Forecast :
              LET n   == Cardinality(RowsOf(c))
                  nm  == Cardinality(MonthsOf(c))
                  \* mean + trend * months_ahead = num / den
                  num == TotalOf(RowsOf(c)) * nm + TrendTimesMonths(c) * fc.months * n
                  den == n * nm
                  gap == Forecast[c] * den - num
              IN  /\ Forecast[c] >= 0
                  /\ IF num <= 0 THEN Forecast[c] = 0
                     ELSE 2 * gap <= den /\ 2 * (0 - gap) <= den

\* a forecast in which one category's mean plus trend is below zero and is
\* reported as 0, and another category has a single month
C16_Witness ==
    /\ fc.op = "predict_next_month" /\ fc.result.predictions.items # << >>
    /\ \E c \in DOMAIN Forecast :
          /\ TotalOf(RowsOf(c)) * Cardinality(MonthsOf(c))
                + TrendTimesMonths(c) * fc.months * Cardinality(RowsOf(c)) < 0
          /\ Forecast[c] = 0
    /\ \E c \in DOMAIN Forecast : Cardinality(MonthsOf(c)) = 1 /\ Forecast[c] > 0

\* C17: the confidence of a forecast is decided by the number of qualifying
\* expense rows alone: high from 50, medium from 20, low below (the degraded
\* result included).
C17_ConfidenceTier ==
    fc.op = "predict_next_month" =>
        LET n == Cardinality(InWindow(WindowDays))
        IN  /\ n >= HighConfidenceAt => fc.result.confidence = "high"
            /\ (n >= MediumConfidenceAt /\ n < HighConfidenceAt) => fc.result.confidence = "medium"
            /\ n < MediumConfidenceAt => fc.result.confidence = "low"

\* a forecast from exactly 50 qualifying rows has confidence high
C17_Witness ==
    /\ fc.op = "predict_next_month"
    /\ Cardinality(InWindow(WindowDays)) = HighConfidenceAt
    /\ fc.result.confidence = "high"

\* C18: the prediction date of a forecast, degraded or not, is the day of
\* the call moved months_ahead calendar months on: the month count advances
\* by months_ahead (the year rolling over) and the day of the month is kept,
\* or cut to the last day of the month arrived at; it is not 30 days a month.
C18_PredictionDate ==
    fc.op = "predict_next_month" =>
        LET d == fc.result.prediction_date
        IN  /\ Period(d) = Period(fc.now) + fc.months
            /\ d.day = IF fc.now.day <= DaysInMonth(d.year, d.month)
                       THEN fc.now.day ELSE DaysInMonth(d.year, d.month)

\* a forecast made on 31 January 2024 for one month ahead is dated 29
\* February, the last day of that month, where 30 days on would be 1 March
C18_Witness ==
    /\ fc.op = "predict_next_month"
    /\ fc.now = Date(2024, 1, 31) /\ fc.months = 1
    /\ fc.result.prediction_date = Date(2024, 2, 29)
    /\ toordinal(fc.result.prediction_date) # toordinal(fc.now) + 30 * fc.months

\* C19: in the per-category statistics of a forecast the trend label is
\* "increasing" exactly when the trend is above 0, "decreasing" exactly when
\* it is below 0, and "stable" exactly when it is 0, which includes every
\* category seen in a single month.
C19_TrendLabel ==
    (fc.op = "predict_next_month" /\ "stats" \in DOMAIN fc.result) =>
        /\ DOMAIN fc.result.stats = { txns[i].category : i \in InWindow(WindowDays) }
        /\ \A c \in DOMAIN fc.result.stats :
              /\ fc.result.stats[c].trend = "increasing" <=> TrendTimesMonths(c) > 0
              /\ fc.result.stats[c].trend = "decreasing" <=> TrendTimesMonths(c) < 0
              /\ fc.result.stats[c].trend = "stable" <=> TrendTimesMonths(c) = 0

\* a forecast whose statistics hold a category with equal first and last
\* month, labelled stable, next to a single-month category
C19_Witness ==
    /\ fc.op = "predict_next_month" /\ "stats" \in DOMAIN fc.result
    /\ \E c \in DOMAIN fc.result.stats :
          Cardinality(MonthsOf(c)) >= 2 /\ fc.result.stats[c].trend = "stable"
    /\ \E c \in DOMAIN fc.result.stats :
          Cardinality(MonthsOf(c)) = 1 /\ fc.result.stats[c].trend = "stable"

\* C20: in every entry of get_spending_trends the label agrees with the
\* reported percentage_change under strict thresholds: above 10 percent
\* "increasing", below -10 percent "decreasing", and otherwise, exactly 10.0
\* and -10.0 included, "stable".
C20_TrendsLabelMatchesChange ==
    fc.op = "get_spending_trends" =>
        \A j \in DOMAIN fc.result :
            /\ fc.result[j].trend = "increasing" <=> fc.result[j].percentage_change > 1000
            /\ fc.result[j].trend = "decreasing" <=> fc.result[j].percentage_change < 0 - 1000
            /\ fc.result[j].trend = "stable" <=>
                  (fc.result[j].percentage_change >= 0 - 1000 /\ fc.result[j].percentage_change <= 1000)

\* the rows get_spending_trends has to read, those of category c among
\* them, the months they fall in, and a month's total
TrendRows == InWindow(fc.months * DaysPerMonth)

TrendRowsOf(c) == { i \in TrendRows : txns[i].category = c }

TrendMonthsOf(c) == { Period(txns[i].transaction_date) : i \in TrendRowsOf(c) }

TrendMonthTotal(c, m) ==
    TotalOf({ i \in TrendRowsOf(c) : Period(txns[i].transaction_date) = m })

FirstMonthTotal(c) ==
    TrendMonthTotal(c, CHOOSE m \in TrendMonthsOf(c) : \A x \in TrendMonthsOf(c) : m <= x)

LastMonthTotal(c) ==
    TrendMonthTotal(c, CHOOSE m \in TrendMonthsOf(c) : \A x \in TrendMonthsOf(c) : m >= x)

\* the categories with rows in two or more calendar months of the window
TwoMonthCategories ==
    { c \in { txns[i].category : i \in TrendRows } : Cardinality(TrendMonthsOf(c)) >= 2 }

\* C21: every entry of get_spending_trends reports, to the hundredth of a
\* percent, percentage_change = (last month's total - first month's total)
\* / first month's total * 100, and monthly_average, to the cent, the mean
\* of the category's monthly totals; for a first month's total of 0 the
\* change is 0 and nothing is divided by zero.
C21_PercentageChange ==
    /\ fc.op = "get_spending_trends" =>
          \A j \in DOMAIN fc.result :
              LET c     == fc.result[j].category
                  first == FirstMonthTotal(c)
                  last  == LastMonthTotal(c)
                  nm    == Cardinality(TrendMonthsOf(c))
                  gap   == fc.result[j].percentage_change * first - (last - first) * 10000
                  off   == fc.result[j].monthly_average * nm - TotalOf(TrendRowsOf(c))
              IN  /\ first > 0
                  /\ 2 * gap <= first /\ 2 * (0 - gap) <= first
                  /\ 2 * off <= nm /\ 2 * (0 - off) <= nm
    /\ \A last \in {0, 1, 250} : PercentageChange(0, last) = Frac(0, 1)

\* the trends of a category whose totals went from 10.00 to 11.00 in two
\* months have come back as 10 percent around a monthly average of 10.50
C21_Witness ==
    /\ fc.op = "get_spending_trends"
    /\ \E j \in DOMAIN fc.result :
          /\ FirstMonthTotal(fc.result[j].category) = 1000
          /\ LastMonthTotal(fc.result[j].category) = 1100
          /\ fc.result[j].percentage_change = 1000
          /\ fc.result[j].monthly_average = 1050

\* C22: get_spending_trends returns exactly one entry for each category
\* with expense rows in two or more calendar months of the window and no
\* entry for any other category; with no such rows in the window it returns
\* the empty list.
C22_OneEntryPerCategory ==
    fc.op = "get_spending_trends" =>
        /\ \A c \in TwoMonthCategories :
              Cardinality({ j \in DOMAIN fc.result : fc.result[j].category = c }) = 1
        /\ \A j \in DOMAIN fc.result : fc.result[j].category \in TwoMonthCategories
        /\ TrendRows = {} => fc.result = << >>

\* trends have come back with an entry for a two-month category and none
\* for a category that has rows in the window, all in one month
C22_Witness ==
    /\ fc.op = "get_spending_trends"
    /\ Len(fc.result) = 1
    /\ \E i \in TrendRows : txns[i].category \notin TwoMonthCategories

\* ------------------------------------------- the single-category forecast
\* the rows predict_category_for_month has to read, and sums over them
CategoryRows == { i \in InWindow(YearDays) : txns[i].category = fc.category }

CategoryTotal == TotalOf(CategoryRows)

CategorySpread ==
    Cardinality(CategoryRows) * SumFn([i \in CategoryRows |-> txns[i].amount * txns[i].amount])
        - CategoryTotal * CategoryTotal

\* C23: predict_category_for_month always returns a result: with fewer than
\* 3 expense rows of the category in the last 365 days the insufficient-data
\* result (predicted_amount 0.0, confidence 0.0, a message), and with 3 or
\* more a confidence of max(0, 1 - std/mean) to the hundredth, 1.0 when the
\* standard deviation is 0, which always lies between 0 and 1.
C23_CategoryConfidence ==
    fc.op = "predict_category_for_month" =>
        IF Cardinality(CategoryRows) < MinCategoryPoints
        THEN fc.result = [ category         |-> fc.category,
                           predicted_amount |-> 0,
                           confidence       |-> 0,
                           message          |-> "Insufficient data for this category" ]
        ELSE LET c  == fc.result.confidence
                 lo == (2 * (100 - c) - 1) * CategoryTotal
                 hi == (2 * (100 - c) + 1) * CategoryTotal
             IN  /\ "message" \notin DOMAIN fc.result
                 /\ fc.result.transaction_count = Cardinality(CategoryRows)
                 /\ c \in 0..100
                 /\ CategorySpread = 0 => c = 100
                 /\ CategorySpread >= CategoryTotal * CategoryTotal => c = 0
                 /\ (CategorySpread > 0 /\ CategorySpread < CategoryTotal * CategoryTotal) =>
                       /\ lo <= 0 \/ lo * lo <= 40000 * CategorySpread
                       /\ 40000 * CategorySpread <= hi * hi

\* a forecast for a category whose amounts spread wider than their mean has
\* come back with confidence 0
C23_Witness ==
    /\ fc.op = "predict_category_for_month"
    /\ Cardinality(CategoryRows) >= MinCategoryPoints
    /\ CategorySpread > CategoryTotal * CategoryTotal
    /\ fc.result.confidence = 0

\* ------------------------------------------------- what a forecast reads
\* the days the operation recorded in fc looks back
Lookback ==
    CASE fc.op = "predict_next_month"         -> WindowDays
      [] fc.op = "get_spending_trends"        -> fc.months * DaysPerMonth
      [] fc.op = "predict_category_for_month" -> YearDays

\* the table without the rows the claim says are never read: incomes, other
\* users' rows, and rows from before the window
OwnExpenses == SelectSeq(txns, LAMBDA t :
    /\ t.user_id = fc.user_id
    /\ t.transaction_type = "expense"
    /\ toordinal(t.transaction_date) >= toordinal(fc.now) - Lookback)

\* the result of the recorded call on the table rows
ResultOf(call, rows) ==
    CASE call.op = "predict_next_month" ->
            PredictNextMonth(rows, call.user_id, call.months, call.now)
      [] call.op = "get_spending_trends" ->
            SpendingTrends(rows, call.user_id, call.months, call.now)
      [] call.op = "predict_category_for_month" ->
            PredictCategoryForMonth(rows, call.user_id, call.category, call.target_month,
                                    call.now)

ResultOn(rows) == ResultOf(fc, rows)

\* C24: the result of every forecaster operation is the result it gives on
\* the caller's expense rows dated inside its lookback window alone: incomes,
\* rows older than the window and other users' rows change nothing in it.
C24_OnlyOwnExpensesInWindow ==
    fc.op # "none" => fc.result = ResultOn(OwnExpenses)

\* a forecast with predictions has come back from a table that also holds
\* an income of the caller, a row of another user and a row from before the
\* window
C24_Witness ==
    /\ fc.op = "predict_next_month"
    /\ fc.result.predictions.items # << >>
    /\ \E i \in DOMAIN txns :
          /\ txns[i].user_id = fc.user_id /\ txns[i].transaction_type = "income"
          /\ toordinal(txns[i].transaction_date) >= toordinal(fc.now) - WindowDays
    /\ \E i \in DOMAIN txns : txns[i].user_id # fc.user_id
    /\ \E i \in DOMAIN txns :
          /\ txns[i].user_id = fc.user_id /\ txns[i].transaction_type = "expense"
          /\ toordinal(txns[i].transaction_date) < toordinal(fc.now) - WindowDays

\* C25: a forecaster call changes neither the stored transactions, nor the
\* account, nor the categorizer's model and file, and its result is fixed by
\* the table, the arguments and the day of the call: nothing of an earlier
\* call enters it, so equal calls on an equal table give equal results
\* whatever was called in between.
C25_Stateless ==
    [][ fc' # fc =>
          /\ UNCHANGED <<pipeline, disk, th, boot, req, txns, balance,
                         clients, clock, budgets>>
          /\ fc'.result = ResultOf(fc', txns) ]_vars

\* a single-category forecast has come back from three or more rows of a
\* table that is as it was before the call
C25_Witness ==
    /\ fc.op = "predict_category_for_month"
    /\ "transaction_count" \in DOMAIN fc.result
    /\ fc.now = Date(2024, 12, 31)
    /\ txns # << >>

\* -------------------------------------------------- the transactions API
\* C26: when create_transaction hands a description to the categorizer and
\* the classification fails, the request still answers 201 and the row is
\* stored with the category "Other" and the confidence 0.0.
C26_FallbackClassification ==
    ( /\ req.ep = "create_transaction"
      /\ req.passed # << >>
      /\ req.status = 201 => req.body[1].auto_categorized = 0 ) =>
        /\ req.status = 201
        /\ req.body[1] \in Members(txns)
        /\ req.body[1].category = "Other"
        /\ req.body[1].category_confidence = Some(<<0, 1>>)

\* the sum of the amounts of the stored rows of one type
StoredTotal(type) ==
    SumSeq([i \in DOMAIN txns |->
              IF txns[i].transaction_type = type THEN txns[i].amount ELSE 0])

\* C27: the balance of the account is its balance at creation (0) plus the
\* amounts of its stored income rows minus the amounts of its stored
\* expense rows, after any sequence of create, update and delete calls.
C27_BalanceConservation ==
    balance = StoredTotal("income") - StoredTotal("expense")

\* -------------------------------------------------------- the rate limiter
\* the requests in a client's deque that lie in the window ending at now
InRateWindow(client_requests, now) ==
    Cardinality({ i \in DOMAIN client_requests : client_requests[i] > now - period })

\* C28: a client never has more than calls admitted requests in a window
\* of period seconds; a request is answered 429 exactly when calls admitted
\* requests of its client already lie in the window ending at its arrival;
\* a rejected request is not recorded; and a request changes no other
\* client's record.
C28_RateLimit ==
    [][ (req' # req /\ req'.ep = "dispatch") =>
          LET client_ip == req'.args[1]
              full      == InRateWindow(clients[client_ip], clock) >= calls
          IN  /\ \A c \in ClientIps : InRateWindow(clients'[c], clock') <= calls
              /\ req'.status = 429 <=> full
              /\ full => Members(clients'[client_ip]) \subseteq Members(clients[client_ip])
              /\ \A c \in ClientIps \ {client_ip} : clients'[c] = clients[c] ]_vars

\* ------------------------------------------------------------ the budgets
\* C29: no user has two budgets with the same category and period, and a
\* create_budget for a pair the user already has answers 400 and changes
\* no stored budget.
C29_BudgetUniqueness ==
    /\ \A i, j \in DOMAIN budgets :
          ( /\ budgets[i].user_id = budgets[j].user_id
            /\ budgets[i].category = budgets[j].category
            /\ budgets[i].period = budgets[j].period ) => i = j
    /\ req.ep = "create_budget" =>
          ( req.status = 400 <=>
              \E i \in DOMAIN budgets :
                  /\ budgets[i].user_id = req.args[1]
                  /\ budgets[i].category = req.args[2].category
                  /\ budgets[i].period = req.args[2].period
                  /\ budgets[i] \notin Members(req.body) )

\* ------------------------------------------------------- bulk-categorize
\* the positions of the id list that name a row of the user with a
\* description
Eligible(ids, user) ==
    { k \in DOMAIN ids :
        \E i \in DOMAIN txns :
            /\ txns[i].id = ids[k] /\ txns[i].user_id = user
            /\ Truthy(txns[i].description, << >>) }

\* C30: bulk_categorize_transactions reports total = the number of ids given
\* and updated + failed = total; it changes only rows that are named in the
\* list, belong to the caller and have a description, and on those it sets
\* the category, auto_categorized = 1 and the confidence; every position of
\* the list that names no such row, or at which the categorizer fails, is
\* counted as failed and changes no row.
C30_BulkCategorize ==
    [][ (req'.ep = "bulk_categorize_transactions" /\ (req' # req \/ txns' # txns)) =>
          LET user == req'.args[1]
              ids  == req'.args[2]
              r    == req'.body[1]
              good == Eligible(ids, user)
          IN  /\ req'.status = 200
              /\ r.total = Len(ids)
              /\ r.updated + r.failed = r.total
              /\ r.updated = IF pipeline' = None THEN 0 ELSE Cardinality(good)
              /\ Len(txns') = Len(txns)
              /\ \A i \in DOMAIN txns :
                    IF pipeline' # None /\ \E k \in good : ids[k] = txns[i].id
                                        /\ txns[i].user_id = user
                    THEN /\ txns'[i].auto_categorized = 1
                         /\ txns'[i].category_confidence # << >>
                         /\ txns'[i] = [txns[i] EXCEPT
                                          !.category = txns'[i].category,
                                          !.auto_categorized = 1,
                                          !.category_confidence = txns'[i].category_confidence]
                    ELSE txns'[i] = txns[i] ]_vars

\* a bulk call naming a row of the caller with a description and a row of
\* another user has come back with one updated and one failed
C30_Witness ==
    /\ req.ep = "bulk_categorize_transactions"
    /\ req.status = 200
    /\ req.body[1].updated = 1 /\ req.body[1].failed = 1
    /\ \E i, j \in DOMAIN txns :
          /\ txns[i].user_id = req.args[1] /\ txns[i].id \in Members(req.args[2])
          /\ txns[i].auto_categorized = 1
          /\ txns[j].user_id # req.args[1] /\ txns[j].id \in Members(req.args[2])
          /\ txns[j].auto_categorized = 0

====
